---- MODULE Spec2Model ----
(***************************************************************************)
(* Model of the Kali tools bridge: the Dispatch service                    *)
(* (kali_api_server.py) with its per-tool command builders and the process *)
(* executor execute_command, the Gateway (mcp_server.py) that forwards to   *)
(* it, the request tracking of debug mode (debug_utils.py) and the chat     *)
(* loop of the Conversational Client (ollama_adapter.py).                  *)
(*                                                                         *)
(* Python strings are sequences of one-character strings, so that the      *)
(* character allow-lists, the substring tests and the f-string             *)
(* concatenations are computed as the code computes them.  A character     *)
(* outside ASCII is written by its code point, e.g. "U+00E9".              *)
(***************************************************************************)
EXTENDS Integers, Sequences, FiniteSets, TLC

VARIABLES
    \* Dispatch service (kali_api_server.py), one worker
    DEBUG_MODE, \* whether the Dispatch process runs in debug mode
    path,       \* the URL path of the current request
    tool,       \* the route handling the current request ("none" when no tool route does)
    body,       \* the decoded JSON body of the current request
    pc,         \* position of the worker: idle, popen, communicate, returned, responded
    command,    \* the command line handed to execute_command
    proc,       \* the spawned process: none, running, exited
    procLife,   \* seconds the spawned process needs to finish by itself
    elapsed,    \* seconds execute_command waited in communicate
    raised,     \* exception class raised inside execute_command's try, "none" otherwise
    result,     \* <<r>> once execute_command returned r, <<>> otherwise
    excOut,     \* exception class that left execute_command, "none" otherwise
    response,   \* the HTTP response of the current request
    execCalls,  \* calls of execute_command made for the current request
    spawns,     \* processes spawned for the current request
    rcFile,     \* /tmp/mcp_msf_resource.rc: <<content>> when present, <<>> when not
    \* Gateway (mcp_server.py), one worker
    gpc,        \* position of execute_tool: idle, probing, forwarding, waiting, responded
    gtool,      \* the tool name of the Gateway's current request
    gbody,      \* the JSON body the Gateway received
    probe,      \* <<outcome>> of the health probe of the current request, <<>> before it
    fwd,        \* the forwarded POST in flight to Dispatch: <<[path, body]>> or <<>>
    lag,        \* seconds from the start of the forward timeout to the start of communicate
    upstream,   \* <<response>> the Gateway received from Dispatch, <<>> otherwise
    gresp,      \* the Gateway's HTTP response
    probes,     \* health probes sent for the current request
    forwards,   \* forward POSTs attempted for the current request
    \* concurrent metasploit requests (threaded Dispatch)
    mpc,        \* position of each metasploit request
    mbody,      \* body of each metasploit request
    mread,      \* what each request's msfconsole read from the resource file
    \* debug mode request tracking (debug_utils.py)
    request_history,  \* the list request_history: entry i is the number of its request
    entry_id,   \* entry i of request_history: its request["id"]
    entry_response,  \* entry i of request_history: the number of the request whose
                \* response was stored in it, 0 while its response is None
    g_request_id,  \* g.request_id of each request thread
    g_number,   \* the number of each request thread's request
    clock,      \* int(time.time())
    hpc,        \* position of each request thread in the debug hooks
    hkind,      \* what each request thread's view does: "tool" or "clear"
    appended,   \* number of entries ever appended to request_history
    served,     \* requests that entered the before-request hook in this run
    \* Conversational Client (ollama_adapter.py), one turn of the chat loop at a time
    cpc,        \* position in the chat loop
    cmsg,       \* the operator's message of the current turn
    creply,     \* the language model's reply of the current turn, <<>> when none
    creq,       \* <<request>> extracted in the current turn, <<>> when none
    canswer,    \* <<answer>> to the confirmation prompt, <<>> when it was not asked
    cpost,      \* <<POST>> sent by execute_tool in the current turn, <<>> when none
    ccalls      \* calls of execute_tool in the current turn

dvars == <<DEBUG_MODE, path, tool, body, pc, command, proc, procLife, elapsed, raised, result, excOut,
           response, execCalls, spawns, rcFile>>

gvars == <<gpc, gtool, gbody, probe, fwd, lag, upstream, gresp, probes, forwards>>

mvars == <<mpc, mbody, mread>>

hvars == <<request_history, entry_id, entry_response, g_request_id, g_number, clock,
           hpc, hkind, appended, served>>

cvars == <<cpc, cmsg, creply, creq, canswer, cpost, ccalls>>

vars == <<dvars, gvars, mvars, hvars, cvars>>

----------------------------------------------------------------------------
(* Python values and the string predicates the routes use *)

Letters ==
    {"a","b","c","d","e","f","g","h","i","j","k","l","m",
     "n","o","p","q","r","s","t","u","v","w","x","y","z",
     "A","B","C","D","E","F","G","H","I","J","K","L","M",
     "N","O","P","Q","R","S","T","U","V","W","X","Y","Z"}

Digits == {"0","1","2","3","4","5","6","7","8","9"}

\* str.isalnum is Unicode-aware: letters and digits outside ASCII satisfy it
NonAsciiLetters == {"U+00E9"}

NonAsciiDigits == {"U+00B2"}

isalnum(c) == c \in Letters \cup Digits \cup NonAsciiLetters \cup NonAsciiDigits

isdigit(c) == c \in Digits \cup NonAsciiDigits

\* a value of a JSON body: s holds the characters of a string or of str(number),
\* items the <<key, value>> pairs of a mapping in insertion order
Str(s) == [kind |-> "str", s |-> s, items |-> <<>>]

\* a JSON number: s holds the characters of str(n)
Num(s) == [kind |-> "int", s |-> s, items |-> <<>>]

\* a JSON object used as a value
Map(pairs) == [kind |-> "map", s |-> <<>>, items |-> pairs]

\* the key is not in the body
Absent == [kind |-> "absent", s |-> <<>>, items |-> <<>>]

\* dict.get(key, default)
get(params, key, default) ==
    IF key \in DOMAIN params /\ params[key].kind # "absent"
    THEN params[key] ELSE default

\* truth value of a Python value, as "if x" and "not x" take it
truthy(v) ==
    CASE v.kind = "str" -> v.s # <<>>
      [] v.kind = "int" -> v.s # <<"0">>
      [] v.kind = "map" -> v.items # <<>>
      [] OTHER -> FALSE

\* "x or y" on two values
py_or(x, y) == IF truthy(x) THEN x ELSE y

\* f"{v}" of a string or a number
format(v) == v.s

\* all(c.isalnum() or c in extra for c in v): iterating a number raises
all_alnum_or(v, extra) ==
    IF v.kind # "str" THEN "raise"
    ELSE IF \A i \in 1..Len(v.s) : isalnum(v.s[i]) \/ v.s[i] \in extra
         THEN "true" ELSE "false"

\* all(c.isdigit() or c in extra for c in v)
all_digit_or(v, extra) ==
    IF v.kind # "str" THEN "raise"
    ELSE IF \A i \in 1..Len(v.s) : isdigit(v.s[i]) \/ v.s[i] \in extra
         THEN "true" ELSE "false"

\* ";" in v or "&" in v or "|" in v: "in" on a number raises
has_shell_meta(v) ==
    IF v.kind # "str" THEN "raise"
    ELSE IF \E i \in 1..Len(v.s) : v.s[i] \in {";", "&", "|"}
         THEN "true" ELSE "false"

----------------------------------------------------------------------------
(* What a route does with a request, up to its call of execute_command *)

NoText == <<>>

\* return jsonify({"error": msg}), 400
Reject(msg) ==
    [status |-> 400, error |-> msg, run |-> FALSE, command |-> NoText, write |-> <<>>]

\* the route's "except Exception" clause: 500
ServerError ==
    [status |-> 500, error |-> "Server error", run |-> FALSE, command |-> NoText,
     write |-> <<>>]

\* result = execute_command(cmd); return jsonify(result)
Execute(cmd) ==
    [status |-> 200, error |-> "", run |-> TRUE, command |-> cmd, write |-> <<>>]

\* one statement of a route: it lets the route go on, or ends it with out
Pass == [stop |-> FALSE, out |-> ServerError]

Stop(out) == [stop |-> TRUE, out |-> out]

\* if not cond: return 400
Require(cond, msg) == IF cond THEN Pass ELSE Stop(Reject(msg))

\* mutant: a value that is no string is rejected like a bad character
Validate_TypeChecked(r3, msg) ==
    CASE r3 = "true" -> Pass
      [] OTHER -> Stop(Reject(msg))

\* if not all(...): return 400, the generator raising on a non-string
Validate(r3, msg) ==
    CASE r3 = "true" -> Pass
      [] r3 = "false" -> Stop(Reject(msg))
      [] OTHER -> Stop(ServerError)

\* mutant: the check logs the attempt but does not return
RejectIf_NoReturn(r3, msg) ==
    CASE r3 = "raise" -> Stop(ServerError)
      [] OTHER -> Pass

\* if ";" in x or ...: return 400
RejectIf(r3, msg) ==
    CASE r3 = "false" -> Pass
      [] r3 = "true" -> Stop(Reject(msg))
      [] OTHER -> Stop(ServerError)

\* a statement guarded by "if cond:"
When(cond, step) == IF cond THEN step ELSE Pass

\* the statements run in order; the first that returns or raises ends the route
RECURSIVE FirstStop(_, _)
FirstStop(steps, last) ==
    IF steps = <<>> THEN last
    ELSE IF Head(steps).stop THEN Head(steps).out
    ELSE FirstStop(Tail(steps), last)

\* params = request.json; params.get(...): a body that is no object raises
Route(b, steps, last) ==
    IF b.kind # "object" THEN ServerError ELSE FirstStop(steps, last)

AdditionalArgsCheck(additional_args) ==
    When(truthy(additional_args),
         RejectIf(has_shell_meta(additional_args), "Invalid additional_args parameter"))

\* mutant: the separating space of the f-string is missing
WithArgs_NoSpace(cmd, additional_args) ==
    IF truthy(additional_args) THEN cmd \o format(additional_args) ELSE cmd

\* command += f" {additional_args}" under "if additional_args:"
WithArgs(cmd, additional_args) ==
    IF truthy(additional_args) THEN cmd \o <<" ">> \o format(additional_args) ELSE cmd

nmap_build(b) ==
    LET params == b.obj
        target == get(params, "target", Str(<<>>))
        scan_type == get(params, "scan_type", Str(<<"-","s","V">>))
        ports == get(params, "ports", Str(<<>>))
        additional_args == get(params, "additional_args", Str(<<>>))
        c0 == <<"n","m","a","p"," ">> \o format(scan_type)
        c1 == IF truthy(ports) THEN c0 \o <<" ","-","p"," ">> \o format(ports) ELSE c0
        c2 == WithArgs(c1, additional_args)
    IN Route(b,
         << Require(truthy(target), "Target parameter is required"),
            Validate(all_alnum_or(target, {".", "-", "_"}), "Invalid target parameter"),
            When(truthy(ports),
                 Validate(all_digit_or(ports, {",", "-"}), "Invalid ports parameter")),
            AdditionalArgsCheck(additional_args) >>,
         Execute(c2 \o <<" ">> \o format(target)))

\* mutant: the mode is compared without regard to case
gobuster_modes_AnyCase ==
    {Str(<<"d","i","r">>), Str(<<"d","n","s">>), Str(<<"f","u","z","z">>), Str(<<"v","h","o","s","t">>),
     Str(<<"D","I","R">>), Str(<<"D","N","S">>), Str(<<"F","U","Z","Z">>), Str(<<"V","H","O","S","T">>)}

\* the list ["dir", "dns", "fuzz", "vhost"] the gobuster route tests mode against
gobuster_modes == {Str(<<"d","i","r">>), Str(<<"d","n","s">>), Str(<<"f","u","z","z">>), Str(<<"v","h","o","s","t">>)}

gobuster_build(b) ==
    LET params == b.obj
        url == get(params, "url", Str(<<>>))
        mode == get(params, "mode", Str(<<"d","i","r">>))
        wordlist == get(params, "wordlist", Str(<<"/","u","s","r","/","s","h","a","r","e","/","w","o","r","d","l","i","s","t","s","/","d","i","r","b","/","c","o","m","m","o","n",".","t","x","t">>))
        additional_args == get(params, "additional_args", Str(<<>>))
        c0 == <<"g","o","b","u","s","t","e","r"," ">> \o format(mode) \o <<" ","-","u"," ">> \o format(url)
                 \o <<" ","-","w"," ">> \o format(wordlist)
    IN Route(b,
         << Require(truthy(url), "URL parameter is required"),
            Require(mode \in gobuster_modes, "Invalid mode"),
            AdditionalArgsCheck(additional_args) >>,
         Execute(WithArgs(c0, additional_args)))

dirb_build(b) ==
    LET params == b.obj
        url == get(params, "url", Str(<<>>))
        wordlist == get(params, "wordlist", Str(<<"/","u","s","r","/","s","h","a","r","e","/","w","o","r","d","l","i","s","t","s","/","d","i","r","b","/","c","o","m","m","o","n",".","t","x","t">>))
        additional_args == get(params, "additional_args", Str(<<>>))
        c0 == <<"d","i","r","b"," ">> \o format(url) \o <<" ">> \o format(wordlist)
    IN Route(b,
         << Require(truthy(url), "URL parameter is required"),
            AdditionalArgsCheck(additional_args) >>,
         Execute(WithArgs(c0, additional_args)))

nikto_build(b) ==
    LET params == b.obj
        target == get(params, "target", Str(<<>>))
        additional_args == get(params, "additional_args", Str(<<>>))
        c0 == <<"n","i","k","t","o"," ","-","h"," ">> \o format(target)
    IN Route(b,
         << Require(truthy(target), "Target parameter is required"),
            AdditionalArgsCheck(additional_args) >>,
         Execute(WithArgs(c0, additional_args)))

\* mutant: data is tested for shell metacharacters like additional_args
sqlmap_build_DataChecked(b) ==
    LET params == b.obj
        url == get(params, "url", Str(<<>>))
        data == get(params, "data", Str(<<>>))
        additional_args == get(params, "additional_args", Str(<<>>))
        c0 == <<"s","q","l","m","a","p"," ","-","u"," ">> \o format(url)
        c1 == IF truthy(data) THEN c0 \o <<" ","-","-","d","a","t","a","=","\"">> \o format(data) \o <<"\"">> ELSE c0
    IN Route(b,
         << Require(truthy(url), "URL parameter is required"),
            AdditionalArgsCheck(data),
            AdditionalArgsCheck(additional_args) >>,
         Execute(WithArgs(c1, additional_args)))

sqlmap_build(b) ==
    LET params == b.obj
        url == get(params, "url", Str(<<>>))
        data == get(params, "data", Str(<<>>))
        additional_args == get(params, "additional_args", Str(<<>>))
        c0 == <<"s","q","l","m","a","p"," ","-","u"," ">> \o format(url)
        c1 == IF truthy(data) THEN c0 \o <<" ","-","-","d","a","t","a","=","\"">> \o format(data) \o <<"\"">> ELSE c0
    IN Route(b,
         << Require(truthy(url), "URL parameter is required"),
            AdditionalArgsCheck(additional_args) >>,
         Execute(WithArgs(c1, additional_args)))

resource_file == <<"/","t","m","p","/","m","c","p","_","m","s","f","_","r","e","s","o","u","r","c","e",".","r","c">>

\* for key, value in options.items(): resource_content += f"set {key} {value}\n"
RECURSIVE set_lines(_)
set_lines(pairs) ==
    IF pairs = <<>> THEN <<>>
    ELSE <<"s","e","t"," ">> \o Head(pairs)[1] \o <<" ">> \o Head(pairs)[2] \o <<"\n">>
         \o set_lines(Tail(pairs))

metasploit_build(b) ==
    LET params == b.obj
        module == get(params, "module", Str(<<>>))
        options == get(params, "options", Map(<<>>))
        resource_content == <<"u","s","e"," ">> \o format(module) \o <<"\n">>
                               \o set_lines(options.items) \o <<"e","x","p","l","o","i","t","\n">>
        run == [Execute(<<"m","s","f","c","o","n","s","o","l","e"," ","-","q"," ","-","r"," ">> \o resource_file)
                  EXCEPT !.write = <<resource_content>>]
    IN Route(b,
         << Require(truthy(module), "Module parameter is required"),
            Validate(all_alnum_or(module, {"/", ".", "_", "-"}), "Invalid module parameter"),
            \* options.items() raises unless options is a mapping
            IF options.kind = "map" THEN Pass ELSE Stop(ServerError) >>,
         run)

\* mutant: "if" in place of "elif": a file flag is added next to the value flag
hydra_build_BothFlags(b) ==
    LET params == b.obj
        target == get(params, "target", Str(<<>>))
        service == get(params, "service", Str(<<>>))
        username == get(params, "username", Str(<<>>))
        username_file == get(params, "username_file", Str(<<>>))
        password == get(params, "password", Str(<<>>))
        password_file == get(params, "password_file", Str(<<>>))
        additional_args == get(params, "additional_args", Str(<<>>))
        c0 == <<"h","y","d","r","a"," ","-","t"," ","4">>
        c1a == IF truthy(username) THEN c0 \o <<" ","-","l"," ">> \o format(username) ELSE c0
        c1 == IF truthy(username_file) THEN c1a \o <<" ","-","L"," ">> \o format(username_file)
              ELSE c1a
        c2 == IF truthy(password) THEN c1 \o <<" ","-","p"," ">> \o format(password)
              ELSE IF truthy(password_file) THEN c1 \o <<" ","-","P"," ">> \o format(password_file)
              ELSE c1
        c3 == WithArgs(c2, additional_args)
    IN Route(b,
         << Require(truthy(target) /\ truthy(service),
                    "Target and service parameters are required"),
            Require(truthy(py_or(username, username_file))
                      /\ truthy(py_or(password, password_file)),
                    "Username/username_file and password/password_file are required"),
            Validate(all_alnum_or(target, {".", "-", "_", ":"}), "Invalid target parameter"),
            Validate(all_alnum_or(service, {".", "_", "-"}), "Invalid service parameter"),
            AdditionalArgsCheck(additional_args) >>,
         Execute(c3 \o <<" ">> \o format(target) \o <<" ">> \o format(service)))

hydra_build(b) ==
    LET params == b.obj
        target == get(params, "target", Str(<<>>))
        service == get(params, "service", Str(<<>>))
        username == get(params, "username", Str(<<>>))
        username_file == get(params, "username_file", Str(<<>>))
        password == get(params, "password", Str(<<>>))
        password_file == get(params, "password_file", Str(<<>>))
        additional_args == get(params, "additional_args", Str(<<>>))
        c0 == <<"h","y","d","r","a"," ","-","t"," ","4">>
        c1 == IF truthy(username) THEN c0 \o <<" ","-","l"," ">> \o format(username)
              ELSE IF truthy(username_file) THEN c0 \o <<" ","-","L"," ">> \o format(username_file)
              ELSE c0
        c2 == IF truthy(password) THEN c1 \o <<" ","-","p"," ">> \o format(password)
              ELSE IF truthy(password_file) THEN c1 \o <<" ","-","P"," ">> \o format(password_file)
              ELSE c1
        c3 == WithArgs(c2, additional_args)
    IN Route(b,
         << Require(truthy(target) /\ truthy(service),
                    "Target and service parameters are required"),
            Require(truthy(py_or(username, username_file))
                      /\ truthy(py_or(password, password_file)),
                    "Username/username_file and password/password_file are required"),
            Validate(all_alnum_or(target, {".", "-", "_", ":"}), "Invalid target parameter"),
            Validate(all_alnum_or(service, {".", "_", "-"}), "Invalid service parameter"),
            AdditionalArgsCheck(additional_args) >>,
         Execute(c3 \o <<" ">> \o format(target) \o <<" ">> \o format(service)))

john_build(b) ==
    LET params == b.obj
        hash_file == get(params, "hash_file", Str(<<>>))
        wordlist == get(params, "wordlist", Str(<<>>))
        format_type == get(params, "format", Str(<<>>))
        additional_args == get(params, "additional_args", Str(<<>>))
        c0 == <<"j","o","h","n">>
        c1 == IF truthy(format_type) THEN c0 \o <<" ","-","-","f","o","r","m","a","t","=">> \o format(format_type) ELSE c0
        c2 == IF truthy(wordlist) THEN c1 \o <<" ","-","-","w","o","r","d","l","i","s","t","=">> \o format(wordlist) ELSE c1
        c3 == WithArgs(c2, additional_args)
    IN Route(b,
         << Require(truthy(hash_file), "Hash file parameter is required"),
            When(truthy(format_type),
                 Validate(all_alnum_or(format_type, {"-", "_"}), "Invalid format parameter")),
            AdditionalArgsCheck(additional_args) >>,
         Execute(c3 \o <<" ">> \o format(hash_file)))

wpscan_build(b) ==
    LET params == b.obj
        url == get(params, "url", Str(<<>>))
        additional_args == get(params, "additional_args", Str(<<>>))
        c0 == <<"w","p","s","c","a","n"," ","-","-","u","r","l"," ">> \o format(url)
    IN Route(b,
         << Require(truthy(url), "URL parameter is required"),
            AdditionalArgsCheck(additional_args) >>,
         Execute(WithArgs(c0, additional_args)))

\* mutant: the target is interpolated before additional_args
enum4linux_build_TargetFirst(b) ==
    LET params == b.obj
        target == get(params, "target", Str(<<>>))
        additional_args == get(params, "additional_args", Str(<<"-","a">>))
    IN Route(b,
         << Require(truthy(target), "Target parameter is required"),
            Validate(all_alnum_or(target, {".", "-", "_", ":"}), "Invalid target parameter") >>,
         Execute(<<"e","n","u","m","4","l","i","n","u","x"," ">> \o format(target) \o <<" ">> \o format(additional_args)))

enum4linux_build(b) ==
    LET params == b.obj
        target == get(params, "target", Str(<<>>))
        additional_args == get(params, "additional_args", Str(<<"-","a">>))
    IN Route(b,
         << Require(truthy(target), "Target parameter is required"),
            Validate(all_alnum_or(target, {".", "-", "_", ":"}), "Invalid target parameter") >>,
         Execute(<<"e","n","u","m","4","l","i","n","u","x"," ">> \o format(additional_args) \o <<" ">> \o format(target)))

----------------------------------------------------------------------------
(* The requests the model sends: JSON bodies of each route *)

Object(o) == [kind |-> "object", obj |-> o]

\* a body that decodes to a JSON array: request.json is a list, .get raises
ArrayBody == [kind |-> "array", obj |-> [k \in {} |-> Absent]]

ArgsValues ==
    {Absent, Str(<<>>), Str(<<"-","v">>), Str(<<"-","v",";","i","d">>), Str(<<"-","v","&","i","d">>), Str(<<"-","v","|","i","d">>), Num(<<"7">>)}

HostValues ==
    {Absent, Str(<<>>), Str(<<"1","0",".","1","0",".","1","0",".","1","0">>), Str(<<"f","e","8","0",":",":","1">>), Str(<<"h",";","i","d">>),
     Str(<<"c", "a", "f", "U+00E9">>), Num(<<"5">>)}

UrlValues == {Absent, Str(<<>>), Str(<<"h","t","t","p",":","/","/","t","/">>), Str(<<"h","t","t","p",":","/","/","t","/","|","i","d">>)}

nmapBodies ==
    {Object(o) : o \in [target : HostValues,
                        scan_type : {Absent, Str(<<"-","s","V">>), Str(<<>>)},
                        ports : {Absent, Str(<<"8","0",",","4","4","3">>), Str(<<"8","0",";","i","d">>)},
                        additional_args : ArgsValues]} \cup {ArrayBody}

gobusterBodies ==
    {Object(o) : o \in [url : UrlValues,
                        mode : {Absent, Str(<<"d","n","s">>), Str(<<"D","I","R">>), Str(<<>>)},
                        wordlist : {Absent, Str(<<"/","w",".","t","x","t">>)},
                        additional_args : ArgsValues]} \cup {ArrayBody}

dirbBodies ==
    {Object(o) : o \in [url : UrlValues,
                        wordlist : {Absent, Str(<<"/","w",".","t","x","t">>)},
                        additional_args : ArgsValues]} \cup {ArrayBody}

niktoBodies ==
    {Object(o) : o \in [target : HostValues \cup {Str(<<"h","t","t","p",":","/","/","t","/","|","i","d">>)},
                        additional_args : ArgsValues]} \cup {ArrayBody}

sqlmapBodies ==
    {Object(o) : o \in [url : UrlValues,
                        data : {Absent, Str(<<"i","d","=","1">>), Str(<<"\"",";","i","d",";","\"">>)},
                        additional_args : ArgsValues]} \cup {ArrayBody}

metasploitBodies ==
    {Object(o) : o \in [module : {Absent, Str(<<>>), Str(<<"e","x","p","l","o","i","t","/","u","n","i","x","/","f","t","p","/","x","_","1">>),
                                  Str(<<"x",";","i","d">>), Num(<<"5">>)},
                        options : {Absent, Map(<<>>),
                                   Map(<< <<<<"R","H","O","S","T","S">>, <<"1","0",".","0",".","0",".","1">>>> >>),
                                   Map(<< <<<<"R","H","O","S","T","S">>, <<"1","0",".","0",".","0",".","1">>>>,
                                          <<<<"C","M","D">>, <<"i","d",";","l","s">>>> >>),
                                   Str(<<"x">>)}]} \cup {ArrayBody}

hydraBodies ==
    {Object(o) : o \in [target : {Absent, Str(<<"1","0",".","1","0",".","1","0",".","1","0">>), Str(<<"f","e","8","0",":",":","1">>),
                                  Str(<<"h",";","i","d">>), Str(<<"c", "a", "f", "U+00E9">>)},
                        service : {Absent, Str(<<"s","s","h">>), Str(<<"s"," ","h">>)},
                        username : {Absent, Str(<<"r","o","o","t">>)},
                        username_file : {Absent, Str(<<"/","u",".","t","x","t">>)},
                        password : {Absent, Str(<<"t","o","o","r">>)},
                        password_file : {Absent, Str(<<"/","p",".","t","x","t">>)},
                        additional_args : {Absent, Str(<<"-","v">>), Str(<<"-","v",";","i","d">>), Str(<<"-","v","&","i","d">>),
                                           Str(<<"-","v","|","i","d">>)}]} \cup {ArrayBody}

johnBodies ==
    {Object(o) : o \in [hash_file : {Absent, Str(<<>>), Str(<<"/","h",".","t","x","t">>)},
                        wordlist : {Absent, Str(<<"/","w",".","t","x","t">>)},
                        format : {Absent, Str(<<"r","a","w","-","m","d","5">>), Str(<<"m","d","5",";","i","d">>), Num(<<"5">>)},
                        additional_args : ArgsValues]} \cup {ArrayBody}

wpscanBodies ==
    {Object(o) : o \in [url : UrlValues, additional_args : ArgsValues]} \cup {ArrayBody}

enum4linuxBodies ==
    {Object(o) : o \in [target : HostValues, additional_args : ArgsValues]}
      \cup {ArrayBody}

----------------------------------------------------------------------------
(* the URL map of the Dispatch service *)

\* a URL path: a fixed prefix and the name that follows it
Path(prefix, name) == [prefix |-> prefix, name |-> name]

NoPath == Path("", "")

\* the tool routes registered with @app.route: view name -> path
url_map ==
    [nmap |-> Path("/api/tools/", "nmap"),
     gobuster |-> Path("/api/tools/", "gobuster"),
     dirb |-> Path("/api/tools/", "dirb"),
     nikto |-> Path("/api/tools/", "nikto"),
     sqlmap |-> Path("/api/tools/", "sqlmap"),
     metasploit |-> Path("/api/tools/", "metasploit"),
     hydra |-> Path("/api/tools/", "hydra"),
     john |-> Path("/api/tools/", "john"),
     wpscan |-> Path("/api/tools/", "wpscan"),
     enum4linux |-> Path("/api/tools/", "enum4linux")]

\* methods=["POST"] of every tool route
url_methods == [n \in DOMAIN url_map |-> {"POST"}]

\* the variable rule /mcp/tools/kali_tools/<tool_name> of the Dispatch service
STUB_PREFIX == "/mcp/tools/kali_tools/"

\* tool names a caller may ask for that no route and no registry holds
UnknownTools == {"nessus", "Nmap"}

\* what Flask answers when no rule matches the path
not_found == [status |-> 404, error |-> "Not Found", results |-> <<>>]

\* what Flask answers when a view function returns None
view_returned_none == [status |-> 500, error |-> "Internal Server Error", results |-> <<>>]

----------------------------------------------------------------------------
(* execute_command *)

TIMEOUT == 300

\* seconds a spawned command may need: well inside, at, and beyond the ceiling
Durations == {1, TIMEOUT, TIMEOUT + 1}

\* what a process that ended leaves: stdout, stderr, returncode
ProcOutputs ==
    {[stdout |-> "out", stderr |-> "", rc |-> 0],
     [stdout |-> "", stderr |-> "err", rc |-> 1],
     [stdout |-> "out", stderr |-> "err", rc |-> 2],
     [stdout |-> "", stderr |-> "", rc |-> -9]}

\* exceptions subprocess.Popen can raise
PopenErrors ==
    {[class |-> "OSError", msg |-> "[Errno 11] Resource temporarily unavailable"],
     [class |-> "MemoryError", msg |-> ""]}

\* exceptions process.communicate can raise besides TimeoutExpired
CommunicateErrors ==
    {[class |-> "UnicodeDecodeError", msg |-> "'utf-8' codec can't decode byte 0xff"]}

TimeoutExpired == [class |-> "TimeoutExpired", msg |-> "timed out after 300 seconds"]

\* the classes derived from Exception
ExceptionSubclasses == {"TimeoutExpired", "OSError", "MemoryError", "UnicodeDecodeError"}

\* mutant: success computed as return_code >= 0
normal_result_NonNegative(out) ==
    [stdout |-> out.stdout, stderr |-> out.stderr, return_code |-> out.rc,
     success |-> (out.rc >= 0)]

normal_result(out) ==
    [stdout |-> out.stdout, stderr |-> out.stderr, return_code |-> out.rc,
     success |-> (out.rc = 0)]

timeout_result ==
    [stdout |-> "", stderr |-> "Command execution timed out after 300 seconds",
     return_code |-> -1, success |-> FALSE]

\* mutant: stderr is str(e) alone
error_result_NoPrefix(e) ==
    [stdout |-> "", stderr |-> e.msg, return_code |-> -1, success |-> FALSE]

error_result(e) ==
    [stdout |-> "", stderr |-> "Error executing command: " \o e.msg,
     return_code |-> -1, success |-> FALSE]

\* mutant: the second handler written as "except OSError"
except_clause_OSErrorOnly(c) ==
    IF c = "TimeoutExpired" THEN "timeout"
    ELSE IF c = "OSError" THEN "generic"
    ELSE "propagate"

\* the except clause of execute_command that takes an exception of class c
except_clause(c) ==
    IF c = "TimeoutExpired" THEN "timeout"
    ELSE IF c \in ExceptionSubclasses THEN "generic"
    ELSE "propagate"

\* how execute_command ends when e is raised inside its try block
handle(e) ==
    CASE except_clause(e.class) = "timeout" ->
           [result |-> <<timeout_result>>, exc |-> "none"]
      [] except_clause(e.class) = "generic" ->
           [result |-> <<error_result(e)>>, exc |-> "none"]
      [] OTHER -> [result |-> <<>>, exc |-> e.class]

\* mutant: execute_command starts the command again after a timeout
after_timeout_Retry == "popen"

\* where execute_command goes after TimeoutExpired: it returns the timeout result
after_timeout == "returned"

\* whether communicate leaves the child running when it raises TimeoutExpired
proc_after_timeout == "running"

----------------------------------------------------------------------------
(* Gateway: mcp_server.py *)

\* mutant: one registry entry names a path Dispatch does not register
KALI_TOOLS_StalePath ==
    [nmap |-> Path("/api/tools/", "nmap"),
     gobuster |-> Path("/api/tools/", "gobuster"),
     dirb |-> Path("/api/tools/", "dirb"),
     nikto |-> Path("/api/tools/", "nikto"),
     sqlmap |-> Path("/api/tools/", "sqlmap"),
     metasploit |-> Path("/api/tools/", "metasploit"),
     hydra |-> Path("/api/tools/", "hydra"),
     john |-> Path("/api/tools/", "john"),
     wpscan |-> Path("/api/tools/", "wpscan"),
     enum4linux |-> Path("/api/tools/", "enum4linux-ng")]

\* the registry: tool name -> path of the Dispatch route
KALI_TOOLS ==
    [nmap |-> Path("/api/tools/", "nmap"),
     gobuster |-> Path("/api/tools/", "gobuster"),
     dirb |-> Path("/api/tools/", "dirb"),
     nikto |-> Path("/api/tools/", "nikto"),
     sqlmap |-> Path("/api/tools/", "sqlmap"),
     metasploit |-> Path("/api/tools/", "metasploit"),
     hydra |-> Path("/api/tools/", "hydra"),
     john |-> Path("/api/tools/", "john"),
     wpscan |-> Path("/api/tools/", "wpscan"),
     enum4linux |-> Path("/api/tools/", "enum4linux")]

\* "actions" of /mcp/capabilities: [tool for tool in KALI_TOOLS.keys()]
get_capabilities == DOMAIN KALI_TOOLS

\* requests.post: the method of the forwarded request
FORWARD_METHOD == "POST"

\* the bodies a caller sends with a tool name
BodiesOf(t) ==
    CASE t = "nmap" -> nmapBodies
      [] t = "gobuster" -> gobusterBodies
      [] t = "dirb" -> dirbBodies
      [] t = "nikto" -> niktoBodies
      [] t = "sqlmap" -> sqlmapBodies
      [] t = "metasploit" -> metasploitBodies
      [] t = "hydra" -> hydraBodies
      [] t = "john" -> johnBodies
      [] t = "wpscan" -> wpscanBodies
      [] t = "enum4linux" -> enum4linuxBodies
      [] OTHER -> {ArrayBody, Object([target |-> Str(<<"1","0",".","1","0",".","1","0",".","1","0">>)])}

\* requests.post(json=params): the JSON text holds the members that are present
json_dumps(b) ==
    [kind |-> b.kind,
     members |-> {<<k, b.obj[k]>> : k \in {x \in DOMAIN b.obj : b.obj[x].kind # "absent"}}]

\* request.json on the Dispatch side
json_loads(w) ==
    [kind |-> w.kind,
     obj |-> [k \in {m[1] : m \in w.members} |->
                (CHOOSE m \in w.members : m[1] = k)[2]]]

NoGatewayResponse ==
    [status |-> 0, kind |-> "none", tool |-> "", message |-> "", results |-> <<>>,
     code |-> 0]

GatewayError(st, msg) ==
    [status |-> st, kind |-> "error", tool |-> "", message |-> msg, results |-> <<>>,
     code |-> 0]

\* what GET /health can come to: a response with a status, or a RequestException
ProbeOutcomes ==
    {[kind |-> "response", status |-> 200], [kind |-> "response", status |-> 500],
     [kind |-> "raise", status |-> 0]}

\* mutant: a failing probe is logged and the request goes on
health_check_LogOnly(o) == <<>>

\* the health check of execute_tool: <<r>> when it returns r, <<>> when it goes on
health_check(o) ==
    IF o.kind = "raise"
    THEN <<GatewayError(503, "API server is not responding")>>
    ELSE IF o.status # 200
    THEN <<GatewayError(503, "API server health check failed")>>
    ELSE <<>>

\* the read timeout of the forward POST, in seconds
GATEWAY_TIMEOUT == 300

\* seconds between the Gateway sending the POST and Dispatch starting communicate
Lags == {0, 1}

\* ways requests.post can fail before Dispatch gets the request
ForwardErrors == {"ConnectionError"}

\* mutant: the results key is left out of the success response
relay_NoResults(t, r) ==
    IF r.status = 200
    THEN [status |-> 200, kind |-> "success", tool |-> t, message |-> "",
          results |-> <<>>, code |-> 0]
    ELSE [status |-> r.status, kind |-> "error", tool |-> "",
          message |-> "Tool execution failed", results |-> <<>>, code |-> r.status]

\* mutant: every Dispatch error is answered as 502
relay_BadGateway(t, r) ==
    IF r.status = 200
    THEN [status |-> 200, kind |-> "success", tool |-> t, message |-> "",
          results |-> r.results, code |-> 0]
    ELSE [status |-> 502, kind |-> "error", tool |-> "",
          message |-> "Tool execution failed", results |-> <<>>, code |-> r.status]

\* what execute_tool answers once Dispatch's response r arrived
relay(t, r) ==
    IF r.status = 200
    THEN [status |-> 200, kind |-> "success", tool |-> t, message |-> "",
          results |-> r.results, code |-> 0]
    ELSE [status |-> r.status, kind |-> "error", tool |-> "",
          message |-> "Tool execution failed", results |-> <<>>, code |-> r.status]

----------------------------------------------------------------------------
(* State machine: Dispatch and Gateway, each serving one request at a time *)

NoResponse == [status |-> 0, error |-> "", results |-> <<>>]

NoBody == [kind |-> "none", obj |-> [k \in {} |-> Absent]]

DispatchIdle ==
    /\ path = NoPath
    /\ tool = "none"
    /\ body = NoBody
    /\ pc = "idle"
    /\ command = NoText
    /\ proc = "none"
    /\ procLife = 0
    /\ elapsed = 0
    /\ raised = "none"
    /\ result = <<>>
    /\ excOut = "none"
    /\ response = NoResponse
    /\ execCalls = 0
    /\ spawns = 0
    /\ rcFile = <<>>

GatewayIdle ==
    /\ gpc = "idle"
    /\ gtool = "none"
    /\ gbody = NoBody
    /\ probe = <<>>
    /\ fwd = <<>>
    /\ lag = 0
    /\ upstream = <<>>
    /\ gresp = NoGatewayResponse
    /\ probes = 0
    /\ forwards = 0

MsfIdle ==
    /\ mpc = <<>>
    /\ mbody = <<>>
    /\ mread = <<>>

DebugIdle ==
    /\ request_history = <<>>
    /\ entry_id = <<>>
    /\ entry_response = <<>>
    /\ g_request_id = <<>>
    /\ g_number = <<>>
    /\ clock = 0
    /\ hpc = <<>>
    /\ hkind = <<>>
    /\ appended = 0
    /\ served = 0

ClientIdle ==
    /\ cpc = "off"
    /\ cmsg = <<>>
    /\ creply = <<>>
    /\ creq = <<>>
    /\ canswer = <<>>
    /\ cpost = <<>>
    /\ ccalls = 0

Init == DEBUG_MODE \in BOOLEAN /\ DispatchIdle /\ GatewayIdle /\ MsfIdle /\ DebugIdle /\ ClientIdle

\* the bodies a Dispatch route at path can be entered with: the forwarded POST when
\* one is in flight, any caller's body when the Gateway is idle
Received(p, bodies) ==
    IF fwd # <<>>
    THEN IF fwd[1].path = p THEN {json_loads(fwd[1].wire)} ELSE {}
    ELSE IF gpc = "idle" THEN bodies ELSE {}

\* a route runs until it returns a response or calls execute_command
Enter(t, b, plan) ==
    /\ path' = url_map[t]
    /\ tool' = t
    /\ body' = b
    /\ command' = plan.command
    /\ rcFile' = IF plan.write # <<>> THEN plan.write ELSE rcFile
    /\ IF plan.run
       THEN /\ pc' = "popen"
            /\ execCalls' = execCalls + 1
            /\ response' = NoResponse
       ELSE /\ pc' = "responded"
            /\ execCalls' = execCalls
            /\ response' = [status |-> plan.status, error |-> plan.error, results |-> <<>>]
    /\ fwd' = <<>>
    /\ UNCHANGED <<DEBUG_MODE, proc, procLife, elapsed, raised, result, excOut, spawns>>
    /\ UNCHANGED <<gpc, gtool, gbody, probe, lag, upstream, gresp, probes, forwards>>
    /\ UNCHANGED <<mvars, hvars, cvars>>

nmap ==
    /\ pc = "idle"
    /\ \E b \in Received(url_map["nmap"], nmapBodies) : Enter("nmap", b, nmap_build(b))

gobuster ==
    /\ pc = "idle"
    /\ \E b \in Received(url_map["gobuster"], gobusterBodies) : Enter("gobuster", b, gobuster_build(b))

dirb ==
    /\ pc = "idle"
    /\ \E b \in Received(url_map["dirb"], dirbBodies) : Enter("dirb", b, dirb_build(b))

nikto ==
    /\ pc = "idle"
    /\ \E b \in Received(url_map["nikto"], niktoBodies) : Enter("nikto", b, nikto_build(b))

sqlmap ==
    /\ pc = "idle"
    /\ \E b \in Received(url_map["sqlmap"], sqlmapBodies) : Enter("sqlmap", b, sqlmap_build(b))

metasploit ==
    /\ pc = "idle"
    /\ \E b \in Received(url_map["metasploit"], metasploitBodies) : Enter("metasploit", b, metasploit_build(b))

hydra ==
    /\ pc = "idle"
    /\ \E b \in Received(url_map["hydra"], hydraBodies) : Enter("hydra", b, hydra_build(b))

john ==
    /\ pc = "idle"
    /\ \E b \in Received(url_map["john"], johnBodies) : Enter("john", b, john_build(b))

wpscan ==
    /\ pc = "idle"
    /\ \E b \in Received(url_map["wpscan"], wpscanBodies) : Enter("wpscan", b, wpscan_build(b))

enum4linux ==
    /\ pc = "idle"
    /\ \E b \in Received(url_map["enum4linux"], enum4linuxBodies) : Enter("enum4linux", b, enum4linux_build(b))

\* a POST to /api/tools/<name> where no route is registered for the name
NoRoute ==
    /\ pc = "idle"
    /\ \E p \in {Path("/api/tools/", n) : n \in UnknownTools}
                 \cup {fwd[i].path : i \in 1..Len(fwd)} :
         /\ \A n \in DOMAIN url_map : url_map[n] # p
         /\ Received(p, {NoBody}) # {}
         /\ path' = p
    /\ tool' = "none"
    /\ body' = NoBody
    /\ response' = not_found
    /\ pc' = "responded"
    /\ fwd' = <<>>
    /\ UNCHANGED <<DEBUG_MODE, command, proc, procLife, elapsed, raised, result, excOut, execCalls,
                   spawns, rcFile>>
    /\ UNCHANGED <<gpc, gtool, gbody, probe, lag, upstream, gresp, probes, forwards>>
    /\ UNCHANGED <<mvars, hvars, cvars>>

\* the view execute_tool of the Dispatch service: its body is "pass"
execute_tool_direct ==
    /\ pc = "idle"
    /\ \E n \in DOMAIN url_map \cup UnknownTools :
         /\ Received(Path(STUB_PREFIX, n), {NoBody}) # {}
         /\ path' = Path(STUB_PREFIX, n)
    /\ tool' = "none"
    /\ body' = NoBody
    /\ response' = view_returned_none
    /\ pc' = "responded"
    /\ fwd' = <<>>
    /\ UNCHANGED <<DEBUG_MODE, command, proc, procLife, elapsed, raised, result, excOut, execCalls,
                   spawns, rcFile>>
    /\ UNCHANGED <<gpc, gtool, gbody, probe, lag, upstream, gresp, probes, forwards>>
    /\ UNCHANGED <<mvars, hvars, cvars>>

\* subprocess.Popen(command, shell=True, ...) starts the process
PopenSpawns ==
    /\ pc = "popen"
    /\ \E d \in Durations : procLife' = d
    /\ proc' = "running"
    /\ spawns' = spawns + 1
    /\ pc' = "communicate"
    /\ UNCHANGED <<DEBUG_MODE, path, tool, body, command, elapsed, raised, result, excOut, response,
                   execCalls, rcFile>>
    /\ UNCHANGED <<gvars, mvars, hvars, cvars>>

\* subprocess.Popen raises: no process exists
PopenRaises ==
    /\ pc = "popen"
    /\ \E e \in PopenErrors :
         /\ raised' = e.class
         /\ result' = handle(e).result
         /\ excOut' = handle(e).exc
    /\ pc' = "returned"
    /\ UNCHANGED <<DEBUG_MODE, path, tool, body, command, proc, procLife, elapsed, response, execCalls,
                   spawns, rcFile>>
    /\ UNCHANGED <<gvars, mvars, hvars, cvars>>

\* communicate(timeout=300) returns: the process ended within the ceiling
CommunicateExit ==
    /\ pc = "communicate"
    /\ procLife <= TIMEOUT
    /\ \E out \in ProcOutputs : result' = <<normal_result(out)>>
    /\ raised' = "none"
    /\ excOut' = "none"
    /\ proc' = "exited"
    /\ elapsed' = procLife
    /\ pc' = "returned"
    /\ UNCHANGED <<DEBUG_MODE, path, tool, body, command, procLife, response, execCalls, spawns, rcFile>>
    /\ UNCHANGED <<gvars, mvars, hvars, cvars>>

\* the process ended but communicate raises while decoding its output
CommunicateRaises ==
    /\ pc = "communicate"
    /\ procLife <= TIMEOUT
    /\ \E e \in CommunicateErrors :
         /\ raised' = e.class
         /\ result' = handle(e).result
         /\ excOut' = handle(e).exc
    /\ proc' = "exited"
    /\ elapsed' = procLife
    /\ pc' = "returned"
    /\ UNCHANGED <<DEBUG_MODE, path, tool, body, command, procLife, response, execCalls, spawns, rcFile>>
    /\ UNCHANGED <<gvars, mvars, hvars, cvars>>

\* communicate(timeout=300) raises TimeoutExpired after 300 seconds
CommunicateTimeout ==
    /\ pc = "communicate"
    /\ procLife >= TIMEOUT
    /\ raised' = TimeoutExpired.class
    /\ result' = handle(TimeoutExpired).result
    /\ excOut' = handle(TimeoutExpired).exc
    /\ proc' = proc_after_timeout
    /\ elapsed' = TIMEOUT
    /\ pc' = after_timeout
    /\ UNCHANGED <<DEBUG_MODE, path, tool, body, command, procLife, response, execCalls, spawns, rcFile>>
    /\ UNCHANGED <<gvars, mvars, hvars, cvars>>

\* mutant: a result with success = False is answered as a server error
route_response_FailureIs500(r, exc) ==
    IF exc # "none" \/ ~r[1].success
    THEN [status |-> 500, error |-> "Server error", results |-> <<>>]
    ELSE [status |-> 200, error |-> "", results |-> r]

\* what a tool route answers after execute_command returned r or let exc through:
\* "return jsonify(result)", or the route's "except Exception" handler
route_response(r, exc) ==
    IF exc # "none"
    THEN [status |-> 500, error |-> "Server error", results |-> <<>>]
    ELSE [status |-> 200, error |-> "", results |-> r]

\* mutant: the resource script is left behind
os_remove_Skipped(file) == file

\* os.remove(resource_file): the file is gone
os_remove(file) == <<>>

\* the rest of the route after execute_command: cleanup, jsonify(result)
RouteReturn ==
    /\ pc = "returned"
    /\ response' = route_response(result, excOut)
    /\ rcFile' = IF excOut = "none" /\ tool = "metasploit" THEN os_remove(rcFile) ELSE rcFile
    /\ pc' = "responded"
    /\ UNCHANGED <<DEBUG_MODE, path, tool, body, command, proc, procLife, elapsed, raised, result, excOut,
                   execCalls, spawns>>
    /\ UNCHANGED <<gvars, mvars, hvars, cvars>>

\* a process that outlived execute_command ends by itself
ProcessExit ==
    /\ proc = "running"
    /\ pc \in {"returned", "responded"}
    /\ proc' = "exited"
    /\ UNCHANGED <<DEBUG_MODE, path, tool, body, pc, command, procLife, elapsed, raised, result, excOut,
                   response, execCalls, spawns, rcFile>>
    /\ UNCHANGED <<gvars, mvars, hvars, cvars>>

\* the response is sent; the worker takes the next request
Done ==
    /\ pc = "responded"
    /\ gpc = "idle"
    /\ path' = NoPath
    /\ tool' = "none"
    /\ body' = NoBody
    /\ pc' = "idle"
    /\ command' = NoText
    /\ proc' = "none"
    /\ procLife' = 0
    /\ elapsed' = 0
    /\ raised' = "none"
    /\ result' = <<>>
    /\ excOut' = "none"
    /\ response' = NoResponse
    /\ execCalls' = 0
    /\ spawns' = 0
    /\ UNCHANGED <<DEBUG_MODE, rcFile>>
    /\ UNCHANGED <<gvars, mvars, hvars, cvars>>

\* execute_tool up to the health check: the registry lookup and request.json
execute_tool ==
    /\ gpc = "idle"
    /\ pc = "idle"
    /\ \E t \in DOMAIN KALI_TOOLS \cup UnknownTools :
         \E b \in BodiesOf(t) :
           /\ gtool' = t
           /\ gbody' = b
           /\ IF t \notin DOMAIN KALI_TOOLS
              THEN /\ gresp' = GatewayError(400, "Unknown tool: " \o t)
                   /\ gpc' = "responded"
              ELSE /\ gresp' = NoGatewayResponse
                   /\ gpc' = "probing"
    /\ UNCHANGED <<probe, fwd, lag, upstream, probes, forwards>>
    /\ UNCHANGED <<dvars, mvars, hvars, cvars>>

\* requests.get(KALI_API_URL/health, timeout=5) and the check of its outcome
HealthProbe ==
    /\ gpc = "probing"
    /\ \E o \in ProbeOutcomes :
         /\ probe' = <<o>>
         /\ IF health_check(o) # <<>>
            THEN /\ gresp' = health_check(o)[1]
                 /\ gpc' = "responded"
            ELSE /\ gresp' = gresp
                 /\ gpc' = "forwarding"
    /\ probes' = probes + 1
    /\ UNCHANGED <<gtool, gbody, fwd, lag, upstream, forwards>>
    /\ UNCHANGED <<dvars, mvars, hvars, cvars>>

\* requests.post(url, json=params, timeout=300): the request reaches Dispatch
ForwardSend ==
    /\ gpc = "forwarding"
    /\ fwd' = <<[path |-> KALI_TOOLS[gtool], wire |-> json_dumps(gbody)]>>
    /\ \E l \in Lags : lag' = l
    /\ forwards' = forwards + 1
    /\ gpc' = "waiting"
    /\ UNCHANGED <<gtool, gbody, probe, upstream, gresp, probes>>
    /\ UNCHANGED <<dvars, mvars, hvars, cvars>>

\* requests.post raises before Dispatch gets the request
ForwardRaises ==
    /\ gpc = "forwarding"
    /\ \E e \in ForwardErrors : gresp' = GatewayError(500, "Error executing tool")
    /\ forwards' = forwards + 1
    /\ gpc' = "responded"
    /\ UNCHANGED <<gtool, gbody, probe, fwd, lag, upstream, probes>>
    /\ UNCHANGED <<dvars, mvars, hvars, cvars>>

\* Dispatch's response arrives within the read timeout
ForwardResponse ==
    /\ gpc = "waiting"
    /\ fwd = <<>>
    /\ pc = "responded"
    /\ lag + elapsed <= GATEWAY_TIMEOUT
    /\ upstream' = <<response>>
    /\ gresp' = relay(gtool, response)
    /\ gpc' = "responded"
    /\ UNCHANGED <<gtool, gbody, probe, fwd, lag, probes, forwards>>
    /\ UNCHANGED <<dvars, mvars, hvars, cvars>>

\* no byte of Dispatch's response arrived for 300 seconds: requests raises ReadTimeout
ForwardTimeout ==
    /\ gpc = "waiting"
    /\ fwd = <<>>
    /\ pc = "responded"
    /\ lag + elapsed >= GATEWAY_TIMEOUT
    /\ gresp' = GatewayError(500, "Error executing tool")
    /\ gpc' = "responded"
    /\ UNCHANGED <<gtool, gbody, probe, fwd, lag, upstream, probes, forwards>>
    /\ UNCHANGED <<dvars, mvars, hvars, cvars>>

\* the Gateway's response is sent; its worker takes the next request
GatewayDone ==
    /\ gpc = "responded"
    /\ gpc' = "idle"
    /\ gtool' = "none"
    /\ gbody' = NoBody
    /\ probe' = <<>>
    /\ lag' = 0
    /\ upstream' = <<>>
    /\ gresp' = NoGatewayResponse
    /\ probes' = 0
    /\ forwards' = 0
    /\ UNCHANGED fwd
    /\ UNCHANGED <<dvars, mvars, hvars, cvars>>

ExecutorStep ==
    PopenSpawns \/ PopenRaises \/ CommunicateExit \/ CommunicateRaises \/ CommunicateTimeout

Next ==
    \/ nmap \/ gobuster \/ dirb \/ nikto \/ sqlmap
    \/ metasploit \/ hydra \/ john \/ wpscan \/ enum4linux
    \/ NoRoute \/ execute_tool_direct
    \/ PopenSpawns \/ PopenRaises
    \/ CommunicateExit \/ CommunicateRaises \/ CommunicateTimeout
    \/ RouteReturn \/ ProcessExit \/ Done
    \/ execute_tool \/ HealthProbe \/ ForwardSend \/ ForwardRaises
    \/ ForwardResponse \/ ForwardTimeout \/ GatewayDone

Spec == Init /\ [][Next]_vars

\* Popen and communicate(timeout=300) both end: execute_command keeps moving
FairSpec == Spec /\ WF_vars(ExecutorStep) /\ WF_vars(RouteReturn)

----------------------------------------------------------------------------
(* Concurrent metasploit requests: app.run serves every request on its own thread *)

\* request threads running the metasploit route at the same time
NumWorkers == 2

Workers == 1..NumWorkers

\* the bodies the metasploit route lets through to the resource file
MsfBodies == {b \in metasploitBodies : metasploit_build(b).run}

MsfInit ==
    /\ DEBUG_MODE \in BOOLEAN
    /\ DispatchIdle /\ GatewayIdle /\ DebugIdle /\ ClientIdle
    /\ mpc = [w \in Workers |-> "idle"]
    /\ mbody = [w \in Workers |-> NoBody]
    /\ mread = [w \in Workers |-> <<>>]

MsfOthers ==
    <<DEBUG_MODE, path, tool, body, pc, command, proc, procLife, elapsed, raised, result,
      excOut, response, execCalls, spawns, gvars, hvars, cvars>>

\* with open(resource_file, "w") as f: f.write(resource_content)
MsfWrite(w) ==
    /\ mpc[w] = "idle"
    /\ \E b \in MsfBodies :
         /\ mbody' = [mbody EXCEPT ![w] = b]
         /\ rcFile' = metasploit_build(b).write
    /\ mpc' = [mpc EXCEPT ![w] = "written"]
    /\ UNCHANGED <<mread, MsfOthers>>

\* execute_command("msfconsole -q -r /tmp/mcp_msf_resource.rc"): msfconsole starts
\* and reads the resource file as it is then
MsfConsoleReads(w) ==
    /\ mpc[w] = "written"
    /\ mread' = [mread EXCEPT ![w] = <<rcFile>>]
    /\ mpc' = [mpc EXCEPT ![w] = "executed"]
    /\ UNCHANGED <<mbody, rcFile, MsfOthers>>

\* os.remove(resource_file); a missing file raises and the route logs a warning
MsfRemove(w) ==
    /\ mpc[w] = "executed"
    /\ rcFile' = <<>>
    /\ mpc' = [mpc EXCEPT ![w] = "removed"]
    /\ UNCHANGED <<mbody, mread, MsfOthers>>

\* return jsonify(result); the thread ends
MsfReturn(w) ==
    /\ mpc[w] = "removed"
    /\ mpc' = [mpc EXCEPT ![w] = "idle"]
    /\ mbody' = [mbody EXCEPT ![w] = NoBody]
    /\ mread' = [mread EXCEPT ![w] = <<>>]
    /\ UNCHANGED <<rcFile, MsfOthers>>

MsfNext ==
    \E w \in Workers :
        \/ MsfWrite(w)
        \/ MsfConsoleReads(w)
        \/ MsfRemove(w)
        \/ MsfReturn(w)

MsfSpec == MsfInit /\ [][MsfNext]_vars

----------------------------------------------------------------------------
(* Debug mode request tracking: debug_utils.py, one thread per request *)

MAX_HISTORY == 100

\* request threads inside the service at the same time
NumThreads == 2

Threads == 1..NumThreads

\* requests served in one run
MaxRequests == 4

\* what the view of a request does to request_history: debug_clear clears it,
\* every other view leaves it alone
ViewKinds == {"tool", "clear"}

\* numbers of earlier requests, served one after the other, that a run starts after
EarlierRequests == {0, MAX_HISTORY - 1}

\* request_history after n requests served one after the other: entry i is the
\* i-th appended
history_after(n) == [i \in 1..n |-> i]

\* mutant: request_history.pop() drops the newest entry
pop_0_Newest(h) == SubSeq(h, 1, Len(h) - 1)

\* request_history.pop(0)
pop_0(h) == Tail(h)

\* the seconds the clock shows during a run
MaxSecond == 2

\* id(request): request is the one flask.request proxy object of the process
id_request == 0

\* f"{int(time.time())}-{id(request)}"
request_id(second) == <<second, id_request>>

NoRequestId == <<0, 0>>

\* for entry in reversed(request_history): if entry["request"]["id"] == rid: the
\* position of the entry that is updated, 0 when the loop ends without a match
last_with_id(ids, rid) ==
    IF \E i \in 1..Len(ids) : ids[i] = rid
    THEN CHOOSE i \in 1..Len(ids) : ids[i] = rid /\ \A j \in (i + 1)..Len(ids) : ids[j] # rid
    ELSE 0

DebugInit ==
    /\ DEBUG_MODE = TRUE
    /\ DispatchIdle /\ GatewayIdle /\ MsfIdle /\ ClientIdle
    /\ \E n \in EarlierRequests :
         /\ request_history = history_after(n)
         /\ entry_id = [i \in 1..n |-> request_id(0)]
         /\ entry_response = history_after(n)
         /\ appended = n
    /\ g_request_id = [t \in Threads |-> NoRequestId]
    /\ g_number = [t \in Threads |-> 0]
    /\ clock = 1
    /\ hpc = [t \in Threads |-> "idle"]
    /\ hkind = [t \in Threads |-> "tool"]
    /\ served = 0

\* a second passes
Tick ==
    /\ clock < MaxSecond
    /\ clock' = clock + 1
    /\ UNCHANGED <<request_history, entry_id, entry_response, g_request_id, g_number,
                   hpc, hkind, appended, served, dvars, gvars, mvars, cvars>>

\* before_request up to request_history.append(...)
BeforeAppend(t) ==
    /\ hpc[t] = "idle"
    /\ served < MaxRequests
    /\ \E k \in ViewKinds : hkind' = [hkind EXCEPT ![t] = k]
    /\ g_request_id' = [g_request_id EXCEPT ![t] = request_id(clock)]
    /\ g_number' = [g_number EXCEPT ![t] = appended + 1]
    /\ request_history' = Append(request_history, appended + 1)
    /\ entry_id' = Append(entry_id, request_id(clock))
    /\ entry_response' = Append(entry_response, 0)
    /\ appended' = appended + 1
    /\ served' = served + 1
    /\ hpc' = [hpc EXCEPT ![t] = "appended"]
    /\ UNCHANGED <<clock, dvars, gvars, mvars, cvars>>

\* if len(request_history) > MAX_HISTORY
BeforeCheck(t) ==
    /\ hpc[t] = "appended"
    /\ hpc' = [hpc EXCEPT ![t] =
                 IF Len(request_history) > MAX_HISTORY THEN "pop" ELSE "view"]
    /\ UNCHANGED <<request_history, entry_id, entry_response, g_request_id, g_number,
                   clock, hkind, appended, served, dvars, gvars, mvars, cvars>>

\* request_history.pop(0); on an empty list it raises IndexError, the hook fails and
\* neither the view nor after_request is called (app.run(debug=True) lets the
\* exception through)
BeforePop(t) ==
    /\ hpc[t] = "pop"
    /\ IF request_history = <<>>
       THEN /\ UNCHANGED <<request_history, entry_id, entry_response>>
            /\ hpc' = [hpc EXCEPT ![t] = "idle"]
            /\ hkind' = [hkind EXCEPT ![t] = "tool"]
            /\ g_request_id' = [g_request_id EXCEPT ![t] = NoRequestId]
            /\ g_number' = [g_number EXCEPT ![t] = 0]
       ELSE /\ request_history' = pop_0(request_history)
            /\ entry_id' = pop_0(entry_id)
            /\ entry_response' = pop_0(entry_response)
            /\ hpc' = [hpc EXCEPT ![t] = "view"]
            /\ UNCHANGED <<hkind, g_request_id, g_number>>
    /\ UNCHANGED <<clock, appended, served, dvars, gvars, mvars, cvars>>

\* the view of the request: debug_clear empties the list
View(t) ==
    /\ hpc[t] = "view"
    /\ IF hkind[t] = "clear"
       THEN request_history' = <<>> /\ entry_id' = <<>> /\ entry_response' = <<>>
       ELSE UNCHANGED <<request_history, entry_id, entry_response>>
    /\ hpc' = [hpc EXCEPT ![t] = "after"]
    /\ UNCHANGED <<g_request_id, g_number, clock, hkind, appended, served,
                   dvars, gvars, mvars, cvars>>

\* after_request: the response is stored in the newest entry whose id is
\* g.request_id
AfterRequest(t) ==
    /\ hpc[t] = "after"
    /\ LET i == last_with_id(entry_id, g_request_id[t])
       IN entry_response' =
            IF i = 0 THEN entry_response
            ELSE [entry_response EXCEPT ![i] = g_number[t]]
    /\ hpc' = [hpc EXCEPT ![t] = "idle"]
    /\ hkind' = [hkind EXCEPT ![t] = "tool"]
    /\ g_request_id' = [g_request_id EXCEPT ![t] = NoRequestId]
    /\ g_number' = [g_number EXCEPT ![t] = 0]
    /\ UNCHANGED <<request_history, entry_id, clock, appended, served,
                   dvars, gvars, mvars, cvars>>

DebugNext ==
    \/ Tick
    \/ \E t \in Threads :
        \/ BeforeAppend(t)
        \/ BeforeCheck(t)
        \/ BeforePop(t)
        \/ View(t)
        \/ AfterRequest(t)

DebugSpec == DebugInit /\ [][DebugNext]_vars

----------------------------------------------------------------------------
(* Conversational Client: ollama_adapter.py *)

\* the port Dispatch listens on and the adapter's KALI_API_BASE_URL points to
API_PORT == 5000

\* the port the Gateway listens on
MCP_PORT == 8080

\* the service that listens on a port
Listener(port) ==
    IF port = API_PORT THEN "Dispatch"
    ELSE IF port = MCP_PORT THEN "Gateway"
    ELSE "none"

\* the rule of the Gateway's forwarding route, up to the tool name
FORWARD_PREFIX == "/mcp/tools/kali_tools/"

\* the adapter's own registry, in the order of the dict
ADAPTER_KALI_TOOLS ==
    << <<"nmap", Path("/api/tools/", "nmap")>>,
       <<"gobuster", Path("/api/tools/", "gobuster")>>,
       <<"dirb", Path("/api/tools/", "dirb")>>,
       <<"nikto", Path("/api/tools/", "nikto")>>,
       <<"sqlmap", Path("/api/tools/", "sqlmap")>>,
       <<"metasploit", Path("/api/tools/", "metasploit")>>,
       <<"hydra", Path("/api/tools/", "hydra")>>,
       <<"john", Path("/api/tools/", "john")>>,
       <<"wpscan", Path("/api/tools/", "wpscan")>>,
       <<"enum4linux", Path("/api/tools/", "enum4linux")>> >>

\* a message is a sequence of words; the words messages are made of
Words ==
    {"hello", "Run", "on", "exit", "help", "nmap", "NMAP", "gobuster", "sqlmap",
     "hydra", "10.10.10.10", "192.168.1.5", "http://t/", "http"}

\* str.lower() of a word
lower(w) ==
    CASE w = "Run" -> "run"
      [] w = "NMAP" -> "nmap"
      [] w = "Y" -> "y"
      [] w = "YES" -> "yes"
      [] OTHER -> w

\* the characters of a word that can become a parameter value
chars(w) ==
    CASE w = "10.10.10.10" -> <<"1","0",".","1","0",".","1","0",".","1","0">>
      [] w = "192.168.1.5" -> <<"1","9","2",".","1","6","8",".","1",".","5">>
      [] w = "http://t/" -> <<"h","t","t","p",":","/","/","t","/">>
      [] OTHER -> <<>>

\* the words matched by \b(?:\d{1,3}\.){3}\d{1,3}\b and by https?://[^\s]+
IpWords == {"10.10.10.10", "192.168.1.5"}

UrlWords == {"http://t/"}

\* re.findall(pattern, message)[0]: the first word of the message in the set
RECURSIVE first_match(_, _)
first_match(message, set) ==
    IF message = <<>> THEN ""
    ELSE IF Head(message) \in set THEN Head(message)
    ELSE first_match(Tail(message), set)

\* tool in message.lower()
mentions(message, name) == \E i \in 1..Len(message) : lower(message[i]) = name

\* the params extract_tool_request collects for one tool: the set of its members
params_for(name, message) ==
    LET ip == first_match(message, IpWords)
        url == first_match(message, UrlWords)
        target == IF name = "nmap"
                     /\ (\E i \in 1..Len(message) : message[i] = "10.10.10.10")
                     /\ ip # ""
                  THEN {<<"target", Str(chars(ip))>>} ELSE {}
        web == IF name \in {"gobuster", "dirb", "nikto", "wpscan", "sqlmap"}
                  /\ (\E i \in 1..Len(message) : message[i] \in {"http", "http://t/"})
                  /\ url # ""
               THEN {<<"url", Str(chars(url))>>} ELSE {}
    IN target \cup web

\* _extract_tool_request: the first tool of the registry the message mentions and
\* for which params were found; <<>> stands for the empty dict
RECURSIVE extract_from(_, _)
extract_from(tools, message) ==
    IF tools = <<>> THEN <<>>
    ELSE IF mentions(message, Head(tools)[1]) /\ params_for(Head(tools)[1], message) # {}
         THEN <<[tool |-> Head(tools)[1],
                 params |-> json_loads([kind |-> "object",
                                        members |-> params_for(Head(tools)[1], message)])]>>
         ELSE extract_from(Tail(tools), message)

extract_tool_request(message) == extract_from(ADAPTER_KALI_TOOLS, message)

\* what the operator types and what the language model replies
Messages ==
    {<<"hello">>, <<"exit">>, <<"help">>,
     <<"Run", "nmap", "on", "10.10.10.10">>,
     <<"Run", "NMAP", "on", "10.10.10.10">>,
     <<"nmap", "192.168.1.5">>,
     <<"nmap", "gobuster", "http://t/">>,
     <<"hydra", "10.10.10.10">>,
     <<"sqlmap", "http">>}

\* what the operator types at the confirmation prompt
Answers == {"y", "yes", "Y", "YES", "n", "", "ok"}

\* mutant: everything but a refusal confirms
confirmed_UnlessNo(answer) == lower(answer) \notin {"n", "no"}

\* confirm.lower() in ["y", "yes"]
confirmed(answer) == lower(answer) \in {"y", "yes"}

\* the path the adapter's registry holds for a tool
RECURSIVE lookup(_, _)
lookup(tools, name) ==
    IF Head(tools)[1] = name THEN Head(tools)[2] ELSE lookup(Tail(tools), name)

\* what the POST comes to: the status of the response, 0 for a RequestException
PostOutcomes == {200, 400, 500, 0}

\* the POST execute_tool sends, requests.post(KALI_API_BASE_URL + KALI_TOOLS[tool_name]),
\* and the status of the dict it returns
adapter_post(request, origin, outcome) ==
    [port |-> API_PORT, path |-> lookup(ADAPTER_KALI_TOOLS, request.tool),
     body |-> request.params, origin |-> origin,
     status |-> IF outcome = 200 THEN "success" ELSE "error"]

ClientInit ==
    /\ DEBUG_MODE \in BOOLEAN
    /\ DispatchIdle /\ GatewayIdle /\ MsfIdle /\ DebugIdle
    /\ cpc = "input"
    /\ cmsg = <<>>
    /\ creply = <<>>
    /\ creq = <<>>
    /\ canswer = <<>>
    /\ cpost = <<>>
    /\ ccalls = 0

ClientOthers == <<dvars, gvars, mvars, hvars>>

\* user_message = input("You: ") and what the loop does with it up to a tool call,
\* a call of the language model, or the next turn
ReadMessage ==
    /\ cpc = "input"
    /\ \E m \in Messages :
         /\ cmsg' = m
         /\ IF Len(m) = 1 /\ lower(m[1]) \in {"exit", "quit"}
            THEN cpc' = "ended" /\ creq' = <<>>
            ELSE IF Len(m) = 1 /\ lower(m[1]) = "help"
            THEN cpc' = "input" /\ creq' = <<>>
            ELSE /\ creq' = extract_tool_request(m)
                 /\ cpc' = IF extract_tool_request(m) # <<>> THEN "user_tool" ELSE "llm"
    /\ creply' = <<>>
    /\ canswer' = <<>>
    /\ cpost' = <<>>
    /\ ccalls' = 0
    /\ UNCHANGED ClientOthers

\* _process_message: result = self.execute_tool(tool_name, params)
UserToolCall ==
    /\ cpc = "user_tool"
    /\ \E o \in PostOutcomes : cpost' = <<adapter_post(creq[1], "operator", o)>>
    /\ ccalls' = ccalls + 1
    /\ cpc' = "input"
    /\ UNCHANGED <<cmsg, creply, creq, canswer, ClientOthers>>

\* self.client.chat(...) streams the reply; a tool request is looked for in it
LlmReply ==
    /\ cpc = "llm"
    /\ \E m \in Messages :
         /\ creply' = <<m>>
         /\ creq' = extract_tool_request(m)
         /\ cpc' = IF extract_tool_request(m) # <<>> THEN "confirm" ELSE "input"
    /\ UNCHANGED <<cmsg, canswer, cpost, ccalls, ClientOthers>>

\* self.client.chat raises: the loop prints the error and takes the next turn
LlmFails ==
    /\ cpc = "llm"
    /\ cpc' = "input"
    /\ UNCHANGED <<cmsg, creply, creq, canswer, cpost, ccalls, ClientOthers>>

\* confirm = input("Run ... ? (y/n): ")
Confirm ==
    /\ cpc = "confirm"
    /\ \E a \in Answers :
         /\ canswer' = <<a>>
         /\ cpc' = IF confirmed(a) THEN "llm_tool" ELSE "input"
    /\ UNCHANGED <<cmsg, creply, creq, cpost, ccalls, ClientOthers>>

\* chat: result = self.execute_tool(tool_name, params) after the confirmation
LlmToolCall ==
    /\ cpc = "llm_tool"
    /\ \E o \in PostOutcomes : cpost' = <<adapter_post(creq[1], "assistant", o)>>
    /\ ccalls' = ccalls + 1
    /\ cpc' = "input"
    /\ UNCHANGED <<cmsg, creply, creq, canswer, ClientOthers>>

ClientNext ==
    \/ ReadMessage \/ UserToolCall \/ LlmReply \/ LlmFails \/ Confirm \/ LlmToolCall

ClientSpec == ClientInit /\ [][ClientNext]_vars

----------------------------------------------------------------------------
(* The route /debug/command of the Dispatch service *)

\* part in text, on strings
in_str(part, text) ==
    \E i \in 1..(Len(text) - Len(part) + 1) : SubSeq(text, i, i + Len(part) - 1) = part

\* text.startswith(prefix)
startswith(text, prefix) ==
    Len(prefix) <= Len(text) /\ SubSeq(text, 1, Len(prefix)) = prefix

\* the list the route tests the command against
unsafe == {<<";">>, <<"|">>, <<"&","&">>, <<"|","|">>, <<">">>, <<"<">>}

allowed_commands ==
    {<<"l","s">>, <<"p","s">>, <<"i","d">>, <<"w","h","o","a","m","i">>, <<"w","h","i","c","h">>, <<"w","h","e","r","e","i","s">>, <<"c","a","t">>, <<"h","e","a","d">>, <<"t","a","i","l">>}

\* return jsonify({"status": "error", ...}), 403
Forbidden(msg) == [Reject(msg) EXCEPT !.status = 403]

\* debug_command up to its call of execute_command; the route has no try, so an
\* exception (request.json is no object, the command is no string) ends in 500
debug_command_build(mode, b) ==
    LET command_ == get(b.obj, "command", Str(<<>>))
    IN IF ~mode THEN Forbidden("Debug mode is not enabled")
       ELSE IF b.kind # "object" \/ (truthy(command_) /\ command_.kind # "str")
       THEN ServerError
       ELSE FirstStop(
              << Require(truthy(command_), "Command parameter is required"),
                 Require(\A u \in unsafe : ~in_str(u, command_.s),
                         "Unsafe command rejected"),
                 Require(\E cmd \in allowed_commands : startswith(command_.s, cmd),
                         "Command not allowed") >>,
              Execute(command_.s))

debug_commandBodies ==
    {Object([command |-> c]) :
        c \in {Absent, Str(<<>>), Str(<<"i","d">>), Str(<<"l","s"," ","-","l","a"," ","/","t","m","p">>), Str(<<"c","a","t"," ","/","e","t","c","/","p","a","s","s","w","d">>),
               Str(<<"l","s",";"," ","i","d">>), Str(<<"l","s"," ","|"," ","w","c">>), Str(<<"l","s"," ","&","&"," ","i","d">>), Str(<<"l","s"," ",">"," ","/","t","m","p","/","x">>),
               Str(<<"n","m","a","p"," ","1","0",".","1","0",".","1","0",".","1","0">>), Str(<<"l","s","o","f">>), Str(<<"l","s"," ","&"," ","i","d">>),
               Str(<<"l","s"," ","$","(","i","d",")">>), Num(<<"5">>)}} \cup {ArrayBody}

DebugRouteInit ==
    /\ DEBUG_MODE \in BOOLEAN
    /\ DispatchIdle /\ GatewayIdle /\ MsfIdle /\ DebugIdle /\ ClientIdle

\* POST /debug/command
debug_command ==
    /\ pc = "idle"
    /\ \E b \in debug_commandBodies :
         LET plan == debug_command_build(DEBUG_MODE, b)
         IN /\ body' = b
            /\ command' = plan.command
            /\ IF plan.run
               THEN /\ pc' = "popen"
                    /\ execCalls' = execCalls + 1
                    /\ response' = NoResponse
               ELSE /\ pc' = "responded"
                    /\ execCalls' = execCalls
                    /\ response' = [status |-> plan.status, error |-> plan.error,
                                    results |-> <<>>]
    /\ path' = Path("/debug/", "command")
    /\ tool' = "debug_command"
    /\ UNCHANGED <<DEBUG_MODE, proc, procLife, elapsed, raised, result, excOut, spawns,
                   rcFile>>
    /\ UNCHANGED <<gvars, mvars, hvars, cvars>>

DebugRouteNext ==
    \/ debug_command
    \/ PopenSpawns \/ PopenRaises
    \/ CommunicateExit \/ CommunicateRaises \/ CommunicateTimeout
    \/ RouteReturn \/ ProcessExit \/ Done

DebugRouteSpec == DebugRouteInit /\ [][DebugRouteNext]_vars

----------------------------------------------------------------------------
(* Properties *)

\* execute_command has been called for the current request and has ended
ExecutorEnded == execCalls > 0 /\ pc \in {"returned", "responded"}

\* the current request reached execute_command
Accepted == execCalls > 0

\* C1: whenever execute_command has ended, whatever the spawn did (normal
\* exit, timeout, failure of Popen or of communicate), it has returned one
\* ExecutionResult with the fields stdout, stderr, return_code and success,
\* and no exception has left it towards the route.
C1_ExecutorAlwaysReturns ==
    ExecutorEnded =>
        /\ excOut = "none"
        /\ Len(result) = 1
        /\ DOMAIN result[1] = {"stdout", "stderr", "return_code", "success"}
        /\ result[1].return_code \in Int
        /\ result[1].success \in BOOLEAN

\* a spawn failure whose exception is no OSError was turned into a result
C1_Witness ==
    /\ ExecutorEnded
    /\ raised = "MemoryError"
    /\ Len(result) = 1
    /\ result[1].return_code = -1

\* the parameters of the body are JSON strings (options: a JSON object)
StringParams(b) ==
    /\ b.kind = "object"
    /\ \A k \in DOMAIN b.obj :
         \/ b.obj[k].kind \in {"str", "absent"}
         \/ k = "options" /\ b.obj[k].kind = "map"

\* parameter k of the body, d when the body has no such key
Param(b, k, d) == get(b.obj, k, Str(d))

Empty(b, k) == ~truthy(Param(b, k, <<>>))

\* the routes that validate additional_args
ArgsCheckedTools ==
    {"nmap", "gobuster", "dirb", "nikto", "sqlmap", "hydra", "john", "wpscan"}

\* some validation check of route t fails on body b
C2_FailsValidation(t, b) ==
    \/ t \in {"nmap", "nikto", "enum4linux"} /\ Empty(b, "target")
    \/ t \in {"gobuster", "dirb", "sqlmap", "wpscan"} /\ Empty(b, "url")
    \/ t = "metasploit" /\ Empty(b, "module")
    \/ t = "john" /\ Empty(b, "hash_file")
    \/ t = "hydra" /\ (Empty(b, "target") \/ Empty(b, "service"))
    \/ t = "hydra" /\ Empty(b, "username") /\ Empty(b, "username_file")
    \/ t = "hydra" /\ Empty(b, "password") /\ Empty(b, "password_file")
    \/ t = "nmap" /\ all_alnum_or(Param(b, "target", <<>>), {".", "-", "_"}) = "false"
    \/ t = "nmap" /\ all_digit_or(Param(b, "ports", <<>>), {",", "-"}) = "false"
    \/ t \in {"hydra", "enum4linux"}
         /\ all_alnum_or(Param(b, "target", <<>>), {".", "-", "_", ":"}) = "false"
    \/ t = "hydra" /\ all_alnum_or(Param(b, "service", <<>>), {".", "_", "-"}) = "false"
    \/ t = "metasploit"
         /\ all_alnum_or(Param(b, "module", <<>>), {"/", ".", "_", "-"}) = "false"
    \/ t = "john" /\ all_alnum_or(Param(b, "format", <<>>), {"-", "_"}) = "false"
    \/ t = "gobuster"
         /\ Param(b, "mode", <<"d","i","r">>).s \notin {<<"d","i","r">>, <<"d","n","s">>, <<"f","u","z","z">>, <<"v","h","o","s","t">>}
    \/ t \in ArgsCheckedTools /\ has_shell_meta(Param(b, "additional_args", <<>>)) = "true"

\* C2: a request with string parameters on which some validation check of
\* its route fails is answered with HTTP 400 in the step that receives it,
\* and execute_command is never called and no process spawned for it.
C2_ValidationFailureIs400 ==
    (tool # "none" /\ StringParams(body) /\ C2_FailsValidation(tool, body)) =>
        /\ pc = "responded"
        /\ response.status = 400
        /\ execCalls = 0
        /\ spawns = 0

\* two checks fail on a hydra request; the earlier one, on target, answers
C2_Witness ==
    /\ tool = "hydra"
    /\ pc = "responded"
    /\ StringParams(body)
    /\ has_shell_meta(Param(body, "additional_args", <<>>)) = "true"
    /\ response = [status |-> 400, error |-> "Invalid target parameter", results |-> <<>>]

\* the routes that accept an additional_args field
ArgsTools == ArgsCheckedTools \cup {"enum4linux"}

\* C3 as claimed: on every route that accepts additional_args, a request
\* whose additional_args contains ';', '&' or '|' never reaches
\* execute_command.
C3_MetaArgsNeverExecuted ==
    (tool \in ArgsTools /\ body.kind = "object"
       /\ has_shell_meta(Param(body, "additional_args", <<>>)) = "true")
    => execCalls = 0

AsciiAlnum == Letters \cup Digits

\* the target allow-list the specification states: [A-Za-z0-9._-:]
TargetAllowList == AsciiAlnum \cup {".", "_", "-", ":"}

TargetTools == {"nmap", "hydra", "enum4linux"}

SomeCharOutside(s, allowed) == \E i \in 1..Len(s) : s[i] \notin allowed

\* C4 as claimed: on nmap, hydra and enum4linux a target with a character
\* outside A-Z a-z 0-9 . _ - : is answered with 400 and never executed, and
\* a target made only of those characters is not rejected by the target check.
C4_TargetAllowList ==
    (tool \in TargetTools /\ pc = "responded" /\ body.kind = "object"
       /\ Param(body, "target", <<>>).kind = "str" /\ ~Empty(body, "target"))
    => LET s == Param(body, "target", <<>>).s IN
         /\ SomeCharOutside(s, TargetAllowList)
              => (response.status = 400 /\ execCalls = 0)
         /\ ~SomeCharOutside(s, TargetAllowList)
              => response.error # "Invalid target parameter"

\* the characters RFC 3986 lets a URL hold: the widest allow-list a URL field can have
UrlAllowList ==
    AsciiAlnum \cup {":", "/", "?", "#", "[", "]", "@", "!", "$", "&", "'", "(", ")",
                     "*", "+", ",", ";", "=", "-", ".", "_", "~", "%"}

\* the free-text fields of each route that reach the command line as a host,
\* a URL, a module path or a format string
FreeTextFields ==
    {<<"nmap", "target">>, <<"hydra", "target">>, <<"enum4linux", "target">>,
     <<"nikto", "target">>, <<"gobuster", "url">>, <<"dirb", "url">>,
     <<"sqlmap", "url">>, <<"wpscan", "url">>, <<"metasploit", "module">>,
     <<"john", "format">>}

\* whether character c is in the allow-list of field f of route t
InAllowList(t, f, c) ==
    CASE f = "url" \/ t = "nikto" -> c \in UrlAllowList
      [] f = "module" -> isalnum(c) \/ c \in {"/", ".", "_", "-"}
      [] f = "format" -> isalnum(c) \/ c \in {"-", "_"}
      [] t = "nmap" -> isalnum(c) \/ c \in {".", "-", "_"}
      [] OTHER -> isalnum(c) \/ c \in {".", "-", "_", ":"}

\* C5 as claimed: a host, URL, module path or format string holding a
\* character outside the allow-list of its field is answered with 400 and
\* never reaches execute_command.
C5_FreeTextAllowListed ==
    \A tf \in FreeTextFields :
        LET v == Param(body, tf[2], <<>>) IN
        (tool = tf[1] /\ body.kind = "object" /\ v.kind = "str"
           /\ \E i \in 1..Len(v.s) : ~InAllowList(tf[1], tf[2], v.s[i]))
        => /\ execCalls = 0
           /\ pc = "responded" => response.status = 400

\* the command the nmap route is said to build from the body
C6_Expected(b) ==
    <<"n","m","a","p"," ">> \o Param(b, "scan_type", <<"-","s","V">>).s
      \o (IF Empty(b, "ports") THEN <<>> ELSE <<" ","-","p"," ">> \o Param(b, "ports", <<>>).s)
      \o (IF Empty(b, "additional_args") THEN <<>>
          ELSE <<" ">> \o Param(b, "additional_args", <<>>).s)
      \o <<" ">> \o Param(b, "target", <<>>).s

C6_Example ==
    Object([target |-> Str(<<"1","0",".","1","0",".","1","0",".","1","0">>), scan_type |-> Str(<<"-","s","V">>),
            ports |-> Str(<<"8","0",",","4","4","3">>), additional_args |-> Absent])

\* C6: for every request the nmap route accepts, the command handed to
\* execute_command is 'nmap <scan_type>' + ' -p <ports>' when ports is
\* non-empty + ' <additional_args>' when non-empty + ' <target>', scan_type
\* defaulting to -sV; the example request yields
\* 'nmap -sV -p 80,443 10.10.10.10'.
C6_NmapCommand ==
    (tool = "nmap" /\ Accepted) =>
        /\ command = C6_Expected(body)
        /\ body = C6_Example => command = <<"n","m","a","p"," ","-","s","V"," ","-","p"," ","8","0",",","4","4","3"," ","1","0",".","1","0",".","1","0",".","1","0">>

C6_Witness ==
    /\ tool = "nmap"
    /\ pc = "popen"
    /\ body = C6_Example
    /\ command = <<"n","m","a","p"," ","-","s","V"," ","-","p"," ","8","0",",","4","4","3"," ","1","0",".","1","0",".","1","0",".","1","0">>

StartsWith(s, p) == Len(s) >= Len(p) /\ SubSeq(s, 1, Len(p)) = p

EndsWith(s, p) == Len(s) >= Len(p) /\ SubSeq(s, Len(s) - Len(p) + 1, Len(s)) = p

NoDoubleSpace(s) == \A i \in 1..(Len(s) - 1) : ~(s[i] = " " /\ s[i + 1] = " ")

DefaultWordlist == <<"/","u","s","r","/","s","h","a","r","e","/","w","o","r","d","l","i","s","t","s","/","d","i","r","b","/","c","o","m","m","o","n",".","t","x","t">>

\* the primary argument(s) of each route's command: the positional ones, or
\* the values the route hands to the tool's target flags
Primary(t, b) ==
    CASE t \in {"nmap", "nikto", "enum4linux"} -> Param(b, "target", <<>>).s
      [] t \in {"sqlmap", "wpscan"} -> Param(b, "url", <<>>).s
      [] t = "gobuster" -> Param(b, "url", <<>>).s \o <<" ","-","w"," ">>
                             \o Param(b, "wordlist", DefaultWordlist).s
      [] t = "dirb" -> Param(b, "url", <<>>).s \o <<" ">> \o Param(b, "wordlist", DefaultWordlist).s
      [] t = "hydra" -> Param(b, "target", <<>>).s \o <<" ">> \o Param(b, "service", <<>>).s
      [] t = "john" -> Param(b, "hash_file", <<>>).s
      [] OTHER -> resource_file

\* the base command of each route with its fixed flags
Base(t) ==
    CASE t = "nmap" -> <<"n","m","a","p"," ">>
      [] t = "gobuster" -> <<"g","o","b","u","s","t","e","r"," ">>
      [] t = "dirb" -> <<"d","i","r","b"," ">>
      [] t = "nikto" -> <<"n","i","k","t","o"," ","-","h"," ">>
      [] t = "sqlmap" -> <<"s","q","l","m","a","p"," ","-","u"," ">>
      [] t = "metasploit" -> <<"m","s","f","c","o","n","s","o","l","e"," ","-","q"," ","-","r"," ">>
      [] t = "hydra" -> <<"h","y","d","r","a"," ","-","t"," ","4"," ">>
      [] t = "john" -> <<"j","o","h","n"," ">>
      [] t = "wpscan" -> <<"w","p","s","c","a","n"," ","-","-","u","r","l"," ">>
      [] OTHER -> <<"e","n","u","m","4","l","i","n","u","x"," ">>

\* no supplied parameter is an empty string or holds a space
PlainValues(b) ==
    \A k \in DOMAIN b.obj :
        b.obj[k].kind = "str" =>
            (b.obj[k].s # <<>> /\ \A i \in 1..Len(b.obj[k].s) : b.obj[k].s[i] # " ")

\* C7 as claimed: every accepted command starts with the base command and
\* its fixed flags, ends with the primary argument(s), after every optional
\* flag and additional_args, and has exactly one space between tokens.
C7_PositionalLast ==
    (Accepted /\ StringParams(body)) =>
        /\ StartsWith(command, Base(tool))
        /\ EndsWith(command, <<" ">> \o Primary(tool, body))
        /\ PlainValues(body) => NoDoubleSpace(command)

\* routes that put the primary positional argument(s) last
PositionalLastTools == {"nmap", "hydra", "john", "enum4linux", "metasploit"}

\* routes that put the primary argument right after the base command
PrimaryFirstTools == {"dirb", "nikto", "sqlmap", "wpscan"}

\* C7 amended: every accepted command starts with the base command and its
\* fixed flags and has no two adjacent spaces when no supplied value is empty
\* or holds a space; nmap, hydra, john, enum4linux and metasploit end with
\* the primary positional argument(s); dirb, nikto, sqlmap and wpscan put
\* the primary argument right after the base command, gobuster after
\* '<mode> -u', and on these five a non-empty additional_args comes last.
C7_TokenOrder ==
    (Accepted /\ StringParams(body)) =>
        /\ StartsWith(command, Base(tool))
        /\ PlainValues(body) => NoDoubleSpace(command)
        /\ tool \in PositionalLastTools
             => EndsWith(command, <<" ">> \o Primary(tool, body))
        /\ tool \in PrimaryFirstTools
             => StartsWith(command, Base(tool) \o Primary(tool, body))
        /\ tool = "gobuster"
             => StartsWith(command, Base(tool) \o Param(body, "mode", <<"d","i","r">>).s
                                      \o <<" ","-","u"," ">> \o Primary(tool, body))
        /\ (tool \notin PositionalLastTools /\ ~Empty(body, "additional_args"))
             => EndsWith(command, <<" ">> \o Param(body, "additional_args", <<>>).s)

\* dirb was handed a command whose last token is additional_args, not a positional
C7_Witness ==
    /\ tool = "dirb"
    /\ pc = "popen"
    /\ command = <<"d","i","r","b"," ","h","t","t","p",":","/","/","t","/"," ","/","w",".","t","x","t"," ","-","v">>

\* C8: every result execute_command returns has success = (return_code = 0).
C8_SuccessIffZero ==
    result # <<>> => (result[1].success <=> (result[1].return_code = 0))

\* a process that ended by itself with a non-zero code
C8_Witness ==
    /\ pc = "returned"
    /\ raised = "none"
    /\ result # <<>>
    /\ result[1].return_code = 2
    /\ result[1].success = FALSE

\* the result execute_command gives after an exception in its try block
C9_FailureResult ==
    (ExecutorEnded /\ raised # "none") =>
        /\ Len(result) = 1
        /\ result[1].stdout = ""
        /\ result[1].stderr # ""
        /\ result[1].return_code = -1
        /\ result[1].success = FALSE
        /\ elapsed <= TIMEOUT

\* C9: after a timeout or any other failure of the spawn, execute_command
\* returns stdout "", a non-empty stderr, return_code -1 and success false,
\* having waited at most 300 seconds; and every call of execute_command
\* does return.
C9_FailureReturns ==
    /\ []C9_FailureResult
    /\ (pc \in {"popen", "communicate"}) ~> (pc = "returned")

\* a command that needs more than the ceiling: execute_command returned at 300 s
C9_Witness ==
    /\ pc = "returned"
    /\ raised = "TimeoutExpired"
    /\ procLife > TIMEOUT
    /\ elapsed = TIMEOUT
    /\ result = <<timeout_result>>

\* C10 as claimed: once execute_command has returned its timeout result,
\* the process it spawned is no longer running.
C10_TimedOutProcessIsDead ==
    (ExecutorEnded /\ raised = "TimeoutExpired") => proc # "running"


----------------------------------------------------------------------------
(* Gateway *)

ProbeOk == probe # <<>> /\ probe[1].kind = "response" /\ probe[1].status = 200

ProbeFailed == probe # <<>> /\ ~ProbeOk

\* C11: the Gateway sends the forward POST only after the health probe of the same
\* request returned 200; when the probe returned another status or raised, the
\* Gateway answers 503 and has sent no forward POST.
C11_ForwardOnlyAfterHealthyProbe ==
    /\ (forwards > 0 \/ fwd # <<>>) => (probes = 1 /\ ProbeOk)
    /\ (gpc = "responded" /\ ProbeFailed) => (gresp.status = 503 /\ forwards = 0)
    /\ (gpc \in {"forwarding", "waiting"}) => ProbeOk

C11_Witness ==
    /\ gpc = "responded"
    /\ probe # <<>> /\ probe[1].kind = "response" /\ probe[1].status = 500
    /\ gresp.status = 503
    /\ forwards = 0

\* C12: a request naming a tool that is not in the registry is answered 400 by the
\* Gateway and 400 by Dispatch, without health probe, forward POST or process spawn.
C12_UnknownToolIs400 ==
    /\ (gpc = "responded" /\ gtool \notin DOMAIN KALI_TOOLS)
         => (gresp.status = 400 /\ probes = 0 /\ forwards = 0 /\ spawns = 0)
    /\ (pc = "responded" /\ path.name \notin DOMAIN url_map)
         => (response.status = 400 /\ execCalls = 0 /\ spawns = 0)

\* the same JSON value: the same members with the same values
JsonEqual(a, b) ==
    /\ a.kind = b.kind
    /\ \A k \in DOMAIN a.obj \cup DOMAIN b.obj :
         get(a.obj, k, Absent) = get(b.obj, k, Absent)

\* the Gateway has received Dispatch's response to its forward POST
Relayed == gpc = "responded" /\ upstream # <<>>

\* C13: when Dispatch answers the forwarded POST with 200 and an ExecutionResult R,
\* the Gateway answers 200 with status "success", the requested tool name and
\* results = R unchanged, and the body Dispatch received is the body the Gateway
\* received.
C13_SuccessPassthrough ==
    /\ (Relayed /\ upstream[1].status = 200) =>
         /\ gresp.status = 200
         /\ gresp.kind = "success"
         /\ gresp.tool = gtool
         /\ result # <<>>
         /\ gresp.results = result
         /\ path = KALI_TOOLS[gtool]
         /\ JsonEqual(body, gbody)
    /\ (gpc = "waiting" /\ fwd = <<>>) =>
         (path = KALI_TOOLS[gtool] /\ JsonEqual(body, gbody))

C13_Witness ==
    /\ Relayed
    /\ gtool = "nmap"
    /\ gbody = C6_Example
    /\ upstream[1].status = 200
    /\ gresp.results = <<[stdout |-> "out", stderr |-> "err", return_code |-> 2,
                         success |-> FALSE]>>

\* C14: whenever Dispatch answers the forwarded POST with a status s other than 200,
\* the Gateway answers with status s and an error body whose code is s.
C14_ErrorStatusRelayed ==
    (Relayed /\ upstream[1].status # 200) =>
        /\ gresp.status = upstream[1].status
        /\ gresp.kind = "error"
        /\ gresp.message # ""
        /\ gresp.code = upstream[1].status

C14_Witness ==
    /\ Relayed
    /\ upstream[1].status = 400
    /\ gresp.status = 400
    /\ gresp.code = 400

\* C15: the Gateway forwarding route answers only 200, 400, 503 or the status
\* Dispatch returned for the forwarded call, also when the forward POST itself fails
\* after a successful health probe.
C15_GatewayStatusSet ==
    gpc = "responded" =>
        gresp.status \in {200, 400, 503} \cup {upstream[i].status : i \in DOMAIN upstream}

\* C16: when a tool run through the Gateway exceeds the Executor's 300 second
\* ceiling, the Gateway's caller receives 200 with results.success = false and
\* results.return_code = -1; the Gateway's own forward timeout does not turn the
\* execution timeout into an HTTP error.
C16_ExecutionTimeoutIs200 ==
    (gpc = "responded" /\ pc = "responded" /\ raised = "TimeoutExpired") =>
        /\ gresp.status = 200
        /\ gresp.results # <<>>
        /\ gresp.results[1].success = FALSE
        /\ gresp.results[1].return_code = -1

----------------------------------------------------------------------------
(* Dispatch: responses of the tool routes *)

\* C17: on every Dispatch tool route, a request that passed validation is answered
\* with 200 carrying the ExecutionResult, whatever the return code and also when
\* the Executor reports a timeout or a spawn failure.
C17_ValidatedRequestIs200 ==
    (pc = "responded" /\ execCalls > 0) =>
        /\ tool \in DOMAIN url_map
        /\ response.status = 200
        /\ result # <<>>
        /\ response.results = result

C17_Witness ==
    /\ pc = "responded"
    /\ tool = "metasploit"
    /\ raised = "OSError"
    /\ spawns = 0
    /\ response.status = 200
    /\ response.results[1].success = FALSE
    /\ response.results[1].return_code = -1

----------------------------------------------------------------------------
(* Dispatch: concurrent metasploit requests *)

\* C18: under any interleaving of concurrent requests, each metasploit request runs
\* msfconsole on the resource script generated from its own module and options, and
\* the script is present and unchanged when its msfconsole reads it.
C18_OwnResourceScript ==
    \A w \in Workers :
        mread[w] # <<>> => mread[w][1] = metasploit_build(mbody[w]).write

----------------------------------------------------------------------------
(* Debug mode: request_history *)

\* no request is inside its before-request hook
NoneInBeforeHook == \A t \in Threads : hpc[t] \notin {"appended", "pop"}

\* C19: whenever no request is inside its before-request hook, request_history
\* holds at most MAX_HISTORY entries and they are the most recently appended
\* entries in append order, under every interleaving of concurrent requests and of
\* /debug/clear calls.
C19_BoundedRecentHistory ==
    NoneInBeforeHook =>
        /\ Len(request_history) <= MAX_HISTORY
        /\ \A i \in 1..Len(request_history) :
             request_history[i] = appended - Len(request_history) + i

C19_Witness ==
    /\ NoneInBeforeHook
    /\ Len(request_history) = MAX_HISTORY
    /\ request_history[1] = 3
    /\ appended = MAX_HISTORY + 2

----------------------------------------------------------------------------
(* Dispatch: the mode of gobuster *)

\* the mode the gobuster route works with: the body's, "dir" when it has none
GobusterMode == Param(body, "mode", <<"d","i","r">>)

AllowedModes == {Str(<<"d","i","r">>), Str(<<"d","n","s">>), Str(<<"f","u","z","z">>), Str(<<"v","h","o","s","t">>)}

\* C20: the gobuster route accepts a request only when mode is exactly one of dir,
\* dns, fuzz, vhost (case-sensitive, "dir" when absent); any other mode yields
\* 400 and no Executor invocation.
C20_GobusterModeEnum ==
    (tool = "gobuster" /\ body.kind = "object") =>
        /\ Accepted => GobusterMode \in AllowedModes
        /\ (pc = "responded" /\ GobusterMode \notin AllowedModes) =>
             (response.status = 400 /\ execCalls = 0 /\ spawns = 0)

C20_Witness ==
    /\ tool = "gobuster"
    /\ pc = "responded"
    /\ Param(body, "url", <<>>) = Str(<<"h","t","t","p",":","/","/","t","/">>)
    /\ Param(body, "mode", <<"d","i","r">>) = Str(<<"D","I","R">>)
    /\ Empty(body, "additional_args")
    /\ response.status = 400
    /\ response.error = "Invalid mode"
    /\ execCalls = 0

----------------------------------------------------------------------------
(* Dispatch: exceptions inside a tool route *)

\* requests on which a route raises before it reaches execute_command: the body is
\* no JSON object, the nmap target is a number, the metasploit options are a string
RaisesInRoute ==
    \/ body.kind # "object"
    \/ /\ tool = "nmap"
       /\ Param(body, "target", <<>>) = Num(<<"5">>)
    \/ /\ tool = "metasploit"
       /\ Param(body, "module", <<>>) = Str(<<"e","x","p","l","o","i","t","/","u","n","i","x","/","f","t","p","/","x","_","1">>)
       /\ get(body.obj, "options", Absent).kind = "str"

\* C21: every Dispatch tool route answers with 200, 400 or 500; an exception raised
\* while decoding the body, validating or building the command is caught inside
\* the route and answered with 500, without the Executor being invoked.
C21_RouteExceptionIs500 ==
    (pc = "responded" /\ tool \in DOMAIN url_map) =>
        /\ response.status \in {200, 400, 500}
        /\ response.status = 500 => (execCalls = 0 /\ spawns = 0)
        /\ RaisesInRoute =>
             (response.status = 500 /\ response.error = "Server error" /\ execCalls = 0)

C21_Witness ==
    /\ pc = "responded"
    /\ tool = "nmap"
    /\ Param(body, "target", <<>>) = Num(<<"5">>)
    /\ response.status = 500
    /\ execCalls = 0

----------------------------------------------------------------------------
(* No retries *)

\* C22: nothing is retried: one call of execute_command spawns at most one
\* process, one Dispatch tool request invokes the Executor at most once, and one
\* Gateway forwarding request sends at most one health probe and at most one
\* forward POST.
C22_NoRetry ==
    /\ spawns <= execCalls
    /\ execCalls <= 1
    /\ probes <= 1
    /\ forwards <= 1
    /\ forwards <= probes

C22_Witness ==
    /\ gpc = "responded"
    /\ probes = 1
    /\ forwards = 1
    /\ execCalls = 1
    /\ spawns = 1
    /\ raised = "TimeoutExpired"
    /\ result = <<timeout_result>>

----------------------------------------------------------------------------
(* Conversational Client *)

\* C23: every tool execution started by the Conversational Client reaches Dispatch
\* through the Gateway: the client's POST goes to the Gateway's forwarding route.
C23_ClientCallsGateway ==
    cpost # <<>> =>
        /\ Listener(cpost[1].port) = "Gateway"
        /\ cpost[1].path.prefix = FORWARD_PREFIX

\* the operator's answer to the confirmation prompt is y or yes, in any letter case
SaidYes == canswer # <<>> /\ lower(canswer[1]) \in {"y", "yes"}

----------------------------------------------------------------------------
(* Dispatch: fields without an allow-list *)

\* text holds part as a run of consecutive characters
Contains(text, part) ==
    \E i \in 1..(Len(text) - Len(part) + 1) : SubSeq(text, i, i + Len(part) - 1) = part

\* the additional_args of the body do not stop the route
ArgsAcceptable ==
    \A i \in 1..Len(Param(body, "additional_args", <<>>).s) :
        Param(body, "additional_args", <<>>).s[i] \notin {";", "&", "|"}

\* C25: fields without an allow-list reach the command unfiltered: every non-empty
\* sqlmap data value stands unchanged in the command as --data="<data>" and no
\* character of it causes a rejection; every key/value pair of the metasploit
\* options is written unchanged as a line "set <key> <value>" of the resource
\* script.
C25_UnfilteredFields ==
    /\ (tool = "sqlmap" /\ StringParams(body) /\ ~Empty(body, "url") /\ ArgsAcceptable) =>
         /\ Accepted
         /\ ~Empty(body, "data") =>
              Contains(command, <<" ","-","-","d","a","t","a","=","\"">> \o Param(body, "data", <<>>).s \o <<"\"">>)
    /\ (tool = "metasploit" /\ Accepted /\ pc \in {"popen", "communicate", "returned"}) =>
         /\ rcFile # <<>>
         /\ StartsWith(rcFile[1], <<"u","s","e"," ">> \o Param(body, "module", <<>>).s \o <<"\n">>)
         /\ EndsWith(rcFile[1], <<"e","x","p","l","o","i","t","\n">>)
         /\ \A i \in 1..Len(get(body.obj, "options", Map(<<>>)).items) :
              LET kv == get(body.obj, "options", Map(<<>>)).items[i]
              IN Contains(rcFile[1], <<"s","e","t"," ">> \o kv[1] \o <<" ">> \o kv[2] \o <<"\n">>)

C25_Witness ==
    /\ tool = "sqlmap"
    /\ pc = "popen"
    /\ Param(body, "data", <<>>) = Str(<<"\"",";","i","d",";","\"">>)
    /\ Param(body, "url", <<>>) = Str(<<"h","t","t","p",":","/","/","t","/">>)
    /\ Empty(body, "additional_args")
    /\ command = <<"s","q","l","m","a","p"," ","-","u"," ","h","t","t","p",":","/","/","t","/"," ","-","-","d","a","t","a","=","\"","\"",";","i","d",";","\"","\"">>

----------------------------------------------------------------------------
(* Dispatch: /debug/command *)

\* the program of a command line: its characters up to the first space
RECURSIVE Program(_)
Program(text) ==
    IF text = <<>> \/ Head(text) = " " THEN <<>>
    ELSE <<Head(text)>> \o Program(Tail(text))

AllowedPrograms ==
    {<<"l","s">>, <<"p","s">>, <<"i","d">>, <<"w","h","o","a","m","i">>, <<"w","h","i","c","h">>, <<"w","h","e","r","e","i","s">>, <<"c","a","t">>, <<"h","e","a","d">>, <<"t","a","i","l">>}

\* the shell runs one command: no character chains, redirects or substitutes
OneCommand(text) ==
    \A i \in 1..Len(text) : text[i] \notin {";", "|", "&", ">", "<", "$"}

\* C26: /debug/command invokes the Executor only when debug mode is enabled and
\* only for a command whose program is one of ls, ps, id, whoami, which, whereis,
\* cat, head, tail and which cannot chain or start a second command; every other
\* command is rejected with 400 (403 when debug mode is off) without invoking the
\* Executor.
C26_DebugCommandAllowList ==
    (tool = "debug_command" /\ StringParams(body)) =>
        /\ Accepted =>
             /\ DEBUG_MODE
             /\ Program(command) \in AllowedPrograms
             /\ OneCommand(command)
        /\ (pc = "responded" /\ ~Accepted) =>
             response.status = (IF DEBUG_MODE THEN 400 ELSE 403)

----------------------------------------------------------------------------
(* Dispatch: the credentials of hydra *)

\* the login flag and the password flag the claim describes
LoginFlag ==
    IF ~Empty(body, "username") THEN <<" ","-","l"," ">> \o Param(body, "username", <<>>).s
    ELSE <<" ","-","L"," ">> \o Param(body, "username_file", <<>>).s

PasswordFlag ==
    IF ~Empty(body, "password") THEN <<" ","-","p"," ">> \o Param(body, "password", <<>>).s
    ELSE <<" ","-","P"," ">> \o Param(body, "password_file", <<>>).s

\* C27: for every request the hydra route accepts, the route puts exactly one of
\* -l / -L and exactly one of -p / -P into the command: -l <username> when
\* username is non-empty and otherwise -L <username_file>, -p <password> when
\* password is non-empty and otherwise -P <password_file>; a request lacking both
\* username and username_file, or both password and password_file, is rejected
\* with 400.
C27_HydraCredentialFlags ==
    (tool = "hydra" /\ StringParams(body)) =>
        /\ Accepted =>
             /\ ~Empty(body, "username") \/ ~Empty(body, "username_file")
             /\ ~Empty(body, "password") \/ ~Empty(body, "password_file")
             /\ command = <<"h","y","d","r","a"," ","-","t"," ","4">> \o LoginFlag \o PasswordFlag
                            \o (IF Empty(body, "additional_args") THEN <<>>
                                ELSE <<" ">> \o Param(body, "additional_args", <<>>).s)
                            \o <<" ">> \o Param(body, "target", <<>>).s
                            \o <<" ">> \o Param(body, "service", <<>>).s
        /\ (pc = "responded"
            /\ \/ Empty(body, "username") /\ Empty(body, "username_file")
               \/ Empty(body, "password") /\ Empty(body, "password_file"))
             => (response.status = 400 /\ execCalls = 0)

C27_Witness ==
    /\ tool = "hydra"
    /\ pc = "popen"
    /\ ~Empty(body, "username")
    /\ ~Empty(body, "username_file")
    /\ Empty(body, "password")
    /\ command = <<"h","y","d","r","a"," ","-","t"," ","4"," ","-","l"," ","r","o","o","t"," ","-","P"," ","/","p",".","t","x","t"," ","1","0",".","1","0",".","1","0",".","1","0"," ","s","s","h">>

\* C28: under any interleaving of concurrent requests, after_request stores a
\* response only in the history entry that the same request's before_request
\* appended, never in another request's entry; when that entry was evicted or
\* cleared, no entry is changed.
C28_ResponseOnOwnEntry ==
    \A i \in 1..Len(request_history) :
        entry_response[i] \in {0, request_history[i]}

\* the module of the metasploit request in progress passed both checks of the route
ModuleValidated ==
    /\ tool = "metasploit"
    /\ body.kind = "object"
    /\ truthy(get(body.obj, "module", Str(<<>>)))
    /\ all_alnum_or(get(body.obj, "module", Str(<<>>)), {"/", ".", "_", "-"}) = "true"

RefusedAsUnknown == gpc = "responded" /\ gresp.status = 400 /\ probes = 0

\* C30: the names listed in /mcp/capabilities are the names the forwarding route
\* accepts; every registered name maps to the path of a POST tool route of
\* Dispatch; Dispatch never answers a forwarded request for a known tool with 404
\* or 405.
C30_RegistriesAgree ==
    /\ \A n \in get_capabilities :
         /\ n \in DOMAIN url_map
         /\ KALI_TOOLS[n] = url_map[n]
         /\ FORWARD_METHOD \in url_methods[n]
    /\ gpc # "idle" => (gtool \in get_capabilities <=> ~RefusedAsUnknown)
    /\ (gpc = "waiting" /\ fwd = <<>> /\ pc = "responded")
         => response.status \notin {404, 405}
    /\ upstream # <<>> => upstream[1].status \notin {404, 405}

C30_Witness ==
    /\ gpc = "responded"
    /\ gtool = "enum4linux"
    /\ gtool \in get_capabilities
    /\ forwards = 1
    /\ path = url_map[gtool]
    /\ upstream # <<>>
    /\ upstream[1].status = 200
====
